---- MODULE Spec2Model ----
(***************************************************************************)
(* Spark LMS backend: learner progress, XP/streak economy and the admin   *)
(* course surface, modelled as a state machine over the persisted tables. *)
(* One action is one HTTP handler (one session, one commit); a handler    *)
(* that raises leaves the database as it found it.                        *)
(***************************************************************************)
EXTENDS Integers, Sequences, FiniteSets, TLC

VARIABLES
    now,        \* wall clock, in ticks (TicksPerDay ticks make a calendar day)
    users,      \* users table: id -> row
    courses,    \* courses table: id -> row
    chapters,   \* chapters table: id -> row
    segments,   \* segments table: id -> row
    paths,      \* chapter_paths table: id -> row
    progress,   \* user_progress table: id -> row
    attempts,   \* segment_attempts table, in insertion order
    user_xp,    \* user_xp ledger, in insertion order
    admin_log,  \* admin_logs table, in insertion order
    next_id,    \* primary-key sequences of the tables rows are inserted into
    resp,       \* the last handler's outcome: operation, status code, payload
    call,       \* arguments of the calls in progress, with what they have read so far
    ret,        \* its return value: <<>> before the call, <<v>> after
    tokens      \* the signed tokens issued so far (held by clients, not stored)

vars == <<now, users, courses, chapters, segments, paths, progress, attempts,
          user_xp, admin_log, next_id, resp, call, ret, tokens>>

db == <<users, courses, chapters, segments, paths, progress, attempts,
        user_xp, admin_log, next_id>>

----------------------------------------------------------------------------
(* Optional values: Python's None is <<>>, a present value v is <<v>>.     *)

None == <<>>
Some(v) == <<v>>
IsNone(o) == o = <<>>
Get(o) == o[1]

Max(S) == CHOOSE x \in S : \A y \in S : y <= x
Min(S) == CHOOSE x \in S : \A y \in S : x <= y

RECURSIVE SetToSortedSeq(_)
\* the ids of S in ascending order
SetToSortedSeq(S) ==
    IF S = {} THEN <<>> ELSE <<Min(S)>> \o SetToSortedSeq(S \ {Min(S)})

InSeq(x, s) == \E i \in 1..Len(s) : s[i] = x

\* Python's int(): truncation toward zero of a / b, b > 0
Trunc(a, b) == IF a >= 0 THEN a \div b ELSE -((-a) \div b)

\* Python's round() of a / b for a >= 0, b > 0: to nearest, ties to even
Round(a, b) ==
    LET q == a \div b
        r == a % b
    IN  IF 2 * r < b THEN q
        ELSE IF 2 * r > b THEN q + 1
        ELSE IF q % 2 = 0 THEN q ELSE q + 1

----------------------------------------------------------------------------
(* Bounds of the model.                                                    *)

TicksPerDay == 2
MaxTick == 2
MaxInstant == 7
MaxXpValue == 12
MaxAttemptNumber == 22
MaxHintsUsed == 11
MaxQuestions == 4
MaxAnswers == 4
MaxCondValue == 2
MaxLog == 2
MaxCourses == 4
MaxLimit == 3
AccessTokenTicks == 1
ResetTokenTicks == 1
MaxTotalXp == 330
MaxEdits == 3

----------------------------------------------------------------------------
(* Segment.calculate_xp_for_attempt.  The rates 0.1, 0.2 and 0.5 are       *)
(* binary doubles in the source; int(xp * 0.1 * k) equals the truncation   *)
(* of xp * k / 10 for every xp in -1000..1000 and k in 0..40, likewise     *)
(* 0.2 and 1/5, and xp * 0.5 is exact, so integer arithmetic is exact on   *)
(* the values modelled.                                                    *)

calculate_xp_for_attempt(xp_value, attempt_number, hints_used, solution_viewed) ==
    LET xp1 == xp_value - Trunc(xp_value * 1 * (attempt_number - 1), 10)
        xp2 == xp1 - Trunc(xp1 * 2 * hints_used, 10)
        xp3 == IF solution_viewed THEN Trunc(xp2 * 5, 10) ELSE xp2
    IN  IF xp3 > 0 THEN xp3 ELSE 0

----------------------------------------------------------------------------
(* ChapterPath.evaluate_condition.  A path row carries is_default,         *)
(* condition_type (optional string) and condition_value (optional int).    *)

CondTypes == {"score_gt", "score_lt", "score_eq", "score_gte", "score_lte"}

\* an ordering comparison of an int with None raises TypeError in Python 3
evaluate_condition_raises(path, user_score) ==
    /\ ~(path.is_default \/ IsNone(path.condition_type)
         \/ Get(path.condition_type) = "")
    /\ ~IsNone(user_score)
    /\ Get(path.condition_type) \in {"score_gt", "score_lt", "score_gte", "score_lte"}
    /\ IsNone(path.condition_value)

\* score_gte read as strictly greater
evaluate_condition_gte_strict(path, user_score) ==
    IF path.is_default \/ IsNone(path.condition_type) \/ Get(path.condition_type) = ""
    THEN TRUE
    ELSE IF IsNone(user_score) THEN FALSE
    ELSE LET t == Get(path.condition_type)
             s == Get(user_score)
         IN  IF t = "score_gt" THEN s > Get(path.condition_value)
             ELSE IF t = "score_lt" THEN s < Get(path.condition_value)
             ELSE IF t = "score_eq" THEN path.condition_value = Some(s)
             ELSE IF t = "score_gte" THEN s > Get(path.condition_value)
             ELSE IF t = "score_lte" THEN s <= Get(path.condition_value)
             ELSE FALSE

evaluate_condition(path, user_score) ==
    IF path.is_default \/ IsNone(path.condition_type) \/ Get(path.condition_type) = ""
    THEN TRUE
    ELSE IF IsNone(user_score) THEN FALSE
    ELSE LET t == Get(path.condition_type)
             s == Get(user_score)
         IN  IF t = "score_gt" THEN s > Get(path.condition_value)
             ELSE IF t = "score_lt" THEN s < Get(path.condition_value)
             ELSE IF t = "score_eq" THEN path.condition_value = Some(s)
             ELSE IF t = "score_gte" THEN s >= Get(path.condition_value)
             ELSE IF t = "score_lte" THEN s <= Get(path.condition_value)
             ELSE FALSE

----------------------------------------------------------------------------
(* SegmentAttempt.calculate_score.  test_results is an optional sequence   *)
(* of `passed` flags, mcq_answers an optional sequence of `selected`       *)
(* values, mcq_questions an optional sequence of `correct_answer` values.  *)
(* int((c / t) * 100) in doubles equals the integer quotient of 100 c by t *)
(* for every 0 <= c <= t < 50 (the first difference is 29 of 50).          *)

Truthy(optseq) == ~IsNone(optseq) /\ Get(optseq) # <<>>

CountCorrect(answers, questions) ==
    Cardinality({i \in 1..Len(answers) :
                    i <= Len(questions) /\ answers[i] = questions[i]})

calculate_score(seg_type, test_results, mcq_answers, mcq_questions) ==
    IF seg_type = "activity"
    THEN IF ~Truthy(test_results) THEN 0
         ELSE LET passed == Cardinality({i \in 1..Len(Get(test_results)) :
                                            Get(test_results)[i]})
                  total == Len(Get(test_results))
              IN  IF total > 0 THEN (passed * 100) \div total ELSE 0
    ELSE IF seg_type = "explanation"
    THEN IF ~Truthy(mcq_answers) \/ ~Truthy(mcq_questions) THEN 100
         ELSE LET correct == CountCorrect(Get(mcq_answers), Get(mcq_questions))
                  total == Len(Get(mcq_questions))
              IN  IF total > 0 THEN (correct * 100) \div total ELSE 0
    ELSE 0

----------------------------------------------------------------------------
(* User.update_level, User.add_xp, User.update_streak.                     *)

\* datetime.date(): the calendar day of an instant
DateOf(t) == t \div TicksPerDay

update_level(u) ==
    LET new_level == (u.total_xp \div 100) + 1
    IN  IF new_level # u.level THEN [u EXCEPT !.level = new_level] ELSE u

\* an award that leaves the level alone
add_xp_no_level(u, amount) == [u EXCEPT !.total_xp = u.total_xp + amount]

\* an award that recomputes the level but drops the amount
add_xp_no_total(u, amount) == update_level(u)

add_xp(u, amount) ==
    update_level([u EXCEPT !.total_xp = u.total_xp + amount])

\* a streak update that counts the day but never raises longest_streak
update_streak_keep_longest(u, activity_date) ==
    [u EXCEPT !.current_streak = u.current_streak + 1,
              !.last_active_date = Some(activity_date)]

update_streak_no_reset(u, activity_date) ==
    [u EXCEPT !.current_streak = u.current_streak + 1,
              !.longest_streak = IF u.current_streak + 1 > u.longest_streak
                                 THEN u.current_streak + 1 ELSE u.longest_streak,
              !.last_active_date = Some(activity_date)]

update_streak(u, activity_date) ==
    LET u1 ==
        IF IsNone(u.last_active_date)
        THEN [u EXCEPT !.current_streak = 1, !.longest_streak = 1]
        ELSE LET days_diff == DateOf(activity_date) - DateOf(Get(u.last_active_date))
             IN  IF days_diff = 0 THEN u
                 ELSE IF days_diff = 1
                 THEN LET c == u.current_streak + 1
                      IN  [u EXCEPT !.current_streak = c,
                                    !.longest_streak =
                                        IF c > u.longest_streak THEN c ELSE u.longest_streak]
                 ELSE [u EXCEPT !.current_streak = 1]
    IN  [u1 EXCEPT !.last_active_date = Some(activity_date)]

----------------------------------------------------------------------------
(* core/security.py.  A password is modelled by its identity and the       *)
(* features check_password_strength reads; a bcrypt hash by the password   *)
(* it verifies.  A token is its payload: it verifies when it was signed    *)
(* by this server (it is in tokens) and has not expired.  exp and iat are  *)
(* whole clock units, so two tokens created for the same subject with the  *)
(* same claims in the same unit are the same token.                        *)

Password(id, length, upper, lower, digit, special) ==
    [id |-> id, length |-> length, upper |-> upper, lower |-> lower,
     digit |-> digit, special |-> special]

InitialPassword == Password("initial", 10, TRUE, TRUE, TRUE, TRUE)

get_password_hash(password) == [bcrypt |-> password.id]

verify_password(plain_password, hashed_password) ==
    hashed_password.bcrypt = plain_password.id

check_password_strength(password) ==
    LET issues == (IF password.length < 8 THEN 1 ELSE 0)
                  + (IF ~password.upper THEN 1 ELSE 0)
                  + (IF ~password.lower THEN 1 ELSE 0)
                  + (IF ~password.digit THEN 1 ELSE 0)
                  + (IF ~password.special THEN 1 ELSE 0)
    IN  [strength |-> IF issues = 0 THEN "strong"
                      ELSE IF issues <= 2 THEN "medium" ELSE "weak",
         issues |-> issues,
         valid |-> issues = 0]

Username(u) == <<"username", u>>
Email(u) == <<"email", u>>

\* create_access_token(subject, expires_delta, additional_claims)
create_access_token(subject, expires_delta, type, is_admin, is_verified) ==
    [sub |-> subject, exp |-> now + expires_delta, iat |-> now,
     type |-> type, is_admin |-> is_admin, is_verified |-> is_verified]

create_password_reset_token(email) ==
    create_access_token(email, ResetTokenTicks, Some("password_reset"), None, None)

\* verify_token: the payload, or None on a bad signature or an expired token
verify_token(token) ==
    IF token \in tokens /\ now <= token.exp THEN Some(token) ELSE None

verify_password_reset_token(token) ==
    LET payload == verify_token(token)
    IN  IF ~IsNone(payload) /\ Get(payload).type = Some("password_reset")
        THEN Some(Get(payload).sub)
        ELSE None

----------------------------------------------------------------------------
(* Table rows, their column defaults and their CHECK constraints.          *)

NewUser(admin, verified, max_courses, daily_xp_limit) ==
    [is_active |-> TRUE, is_admin |-> admin, is_verified |-> verified,
     total_xp |-> 0, level |-> 1,
     current_streak |-> 0, longest_streak |-> 0, last_active_date |-> None,
     max_courses |-> max_courses, daily_xp_limit |-> daily_xp_limit,
     hashed_password |-> get_password_hash(InitialPassword),
     password_reset_token |-> None]

CheckUser(u) ==
    /\ u.total_xp >= 0
    /\ u.level >= 1
    /\ u.current_streak >= 0
    /\ u.longest_streak >= u.current_streak

NewCourse(slug, author_id) ==
    [slug |-> slug, status |-> "draft", published_at |-> None,
     is_featured |-> FALSE, category |-> None, difficulty_level |-> "beginner",
     total_xp |-> 0, enrolled_count |-> 0, author_id |-> author_id]

NewUserProgress(user_id, course_id, first_chapter_id) ==
    [user_id |-> user_id, course_id |-> course_id,
     current_chapter_id |-> Some(first_chapter_id), current_segment_id |-> None,
     status |-> "in_progress",
     progress_percentage |-> [num |-> 0, den |-> 1],
     completed_chapters |-> <<>>, unlocked_chapters |-> <<first_chapter_id>>,
     chapter_scores |-> <<>>,
     completed_segments |-> <<>>, segment_scores |-> <<>>,
     total_xp_earned |-> 0, average_score |-> [num |-> 0, den |-> 1],
     total_time_spent |-> 0, last_activity_at |-> None,
     learning_path |-> <<first_chapter_id>>, completed_at |-> None]

CheckUserProgress(p) ==
    /\ p.progress_percentage.num >= 0
    /\ p.progress_percentage.num <= 100 * p.progress_percentage.den
    /\ p.total_xp_earned >= 0

CheckSegmentAttempt(a) ==
    /\ a.score >= 0 /\ a.score <= 100
    /\ a.xp_earned >= 0
    /\ a.attempt_number > 0

CheckUserXP(x) == x.xp_amount # 0

\* JSON maps keyed by id: dict.get(key, default)
DictGet(d, k, default) == IF k \in DOMAIN d THEN d[k] ELSE default
DictSet(d, k, v) == [x \in DOMAIN d \cup {k} |-> IF x = k THEN v ELSE d[x]]

\* segment_attempts rows of one (user, segment), in insertion order
AttemptsOf(u, s) == IF <<u, s>> \in DOMAIN attempts THEN attempts[<<u, s>>] ELSE <<>>

\* user_xp is kept as a bag of rows: row -> number of copies
RECURSIVE SumXP(_, _)
SumXP(ledger, rows) ==
    IF rows = {} THEN 0
    ELSE LET r == CHOOSE x \in rows : TRUE
         IN  r.xp_amount * ledger[r] + SumXP(ledger, rows \ {r})

LedgerAdd(ledger, row) ==
    [x \in DOMAIN ledger \cup {row} |->
        IF x = row THEN DictGet(ledger, row, 0) + 1 ELSE ledger[x]]

Response(op, code, detail, user, target) ==
    [op |-> op, code |-> code, detail |-> detail]

----------------------------------------------------------------------------
(* The identity dependencies of the routers, on the caller's users row.    *)

\* get_current_user: the row exists and is active (401 / 403 otherwise)
get_current_user_code(u) ==
    IF u \notin DOMAIN users THEN 401
    ELSE IF ~users[u].is_active THEN 403
    ELSE 200

\* get_current_verified_user: additionally is_verified
get_current_verified_user_code(u) ==
    IF get_current_user_code(u) # 200 THEN get_current_user_code(u)
    ELSE IF ~users[u].is_verified THEN 403
    ELSE 200

\* an admin gate that checks nothing beyond get_current_user
get_current_admin_user_code_any(u) == get_current_user_code(u)

\* get_current_admin_user: get_current_user and is_admin
get_current_admin_user_code(u) ==
    IF get_current_user_code(u) # 200 THEN get_current_user_code(u)
    ELSE IF ~users[u].is_admin THEN 403
    ELSE 200

----------------------------------------------------------------------------
(* UserProgress methods, on the mapped object of one request.              *)

CourseChapters(course_id) == {c \in DOMAIN chapters : chapters[c].course_id = course_id}

update_progress(p) ==
    LET total_chapters == Cardinality(CourseChapters(p.course_id))
    IN  IF p.course_id \notin DOMAIN courses \/ total_chapters = 0 THEN p
        ELSE LET pct == [num |-> 100 * Len(p.completed_chapters), den |-> total_chapters]
                 p1 == [p EXCEPT !.progress_percentage = pct]
             IN  IF pct.num >= 100 * pct.den
                 THEN [p1 EXCEPT !.status = "completed",
                                 !.completed_at = IF IsNone(p.completed_at)
                                                  THEN Some(now) ELSE p.completed_at]
                 ELSE IF pct.num > 0
                 THEN [p1 EXCEPT !.status = "in_progress"]
                 ELSE p1

RECURSIVE SumDict(_, _)
\* sum(d.get(k, 0) for k in keys)
SumDict(d, keys) ==
    IF keys = {} THEN 0
    ELSE LET k == CHOOSE x \in keys : TRUE
         IN  DictGet(d, k, 0) + SumDict(d, keys \ {k})

update_average_score(p) ==
    IF DOMAIN p.chapter_scores = {} THEN p
    ELSE [p EXCEPT !.average_score =
             [num |-> SumDict(p.chapter_scores, DOMAIN p.chapter_scores),
              den |-> Cardinality(DOMAIN p.chapter_scores)]]

add_completed_chapter(p, chapter_id, score) ==
    LET p1 == IF ~InSeq(chapter_id, p.completed_chapters)
              THEN [p EXCEPT !.completed_chapters = Append(@, chapter_id)]
              ELSE p
        p2 == [p1 EXCEPT !.chapter_scores = DictSet(@, chapter_id, score)]
    IN  update_average_score(update_progress(p2))

(* What the unit of work writes for a user_progress object at commit.      *)
(* chapter_scores and segment_scores are plain JSON columns               *)
(* (mapped_column(JSON), no mutation tracking) and the handlers change    *)
(* them only in place (d[key] = value), never by assignment: the session  *)
(* sees no change of these attributes and leaves the stored maps as they  *)
(* are.  The list columns are always re-assigned (x = x + [id]) and are   *)
(* written.                                                                *)
orm_flush_user_progress(stored, obj) ==
    [obj EXCEPT !.chapter_scores = stored.chapter_scores,
                !.segment_scores = stored.segment_scores]

----------------------------------------------------------------------------
(* Learning-path resolution (app.utils.learning_path): the destinations of *)
(* the chapter's outgoing paths that evaluate true for the score, by       *)
(* ascending order_priority; default paths only when no conditional path   *)
(* matches.                                                                *)

OutgoingPaths(chapter_id) == {p \in DOMAIN paths : paths[p].from_chapter_id = chapter_id}

RECURSIVE PathsByPriority(_)
PathsByPriority(ids) ==
    IF ids = {} THEN <<>>
    ELSE LET first == CHOOSE p \in ids : \A q \in ids :
                          \/ paths[p].order_priority < paths[q].order_priority
                          \/ /\ paths[p].order_priority = paths[q].order_priority
                             /\ p <= q
         IN  <<paths[first].to_chapter_id>> \o PathsByPriority(ids \ {first})

get_next_chapters_for_user(chapter_id, score) ==
    LET out == OutgoingPaths(chapter_id)
        conditional == {p \in out : ~paths[p].is_default
                                    /\ evaluate_condition(paths[p], Some(score))}
        fallback == {p \in out : paths[p].is_default}
    IN  IF conditional # {} THEN PathsByPriority(conditional)
        ELSE PathsByPriority(fallback)

get_next_chapters_raises(chapter_id, score) ==
    \E p \in OutgoingPaths(chapter_id) : evaluate_condition_raises(paths[p], Some(score))

\* an unlock loop without the membership test
UnlockAll_no_check(p, next_chapters) ==
    [p EXCEPT !.unlocked_chapters = @ \o next_chapters,
              !.learning_path = @ \o next_chapters]

RECURSIVE UnlockAll(_, _)
\* courses.py: for next_chapter in next_chapters: unlock it if it is not unlocked
UnlockAll(p, next_chapters) ==
    IF next_chapters = <<>> THEN p
    ELSE LET c == Head(next_chapters)
             p1 == IF ~InSeq(c, p.unlocked_chapters)
                   THEN [p EXCEPT !.unlocked_chapters = Append(@, c),
                                  !.learning_path = Append(@, c)]
                   ELSE p
         IN  UnlockAll(p1, Tail(next_chapters))

----------------------------------------------------------------------------
(* Handlers.  A handler that raises answers with the error's status code   *)
(* and leaves every table unchanged.                                       *)

Reject(op, code, detail, user, target) ==
    /\ resp' = Response(op, code, detail, user, target)
    /\ UNCHANGED <<now, db, call, ret, tokens>>

Tick ==
    /\ now < MaxTick
    /\ now' = now + 1
    /\ UNCHANGED <<db, resp, call, ret, tokens>>

PublishedCoursesBySlug(slug) ==
    {c \in DOMAIN courses : courses[c].slug = slug /\ courses[c].status = "published"}

\* an enrollment lookup that finds nothing
UserProgressRows_none(u, course_id) == {}

UserProgressRows(u, course_id) ==
    {p \in DOMAIN progress : progress[p].user_id = u /\ progress[p].course_id = course_id}

PublishedChapters(course_id) ==
    {c \in CourseChapters(course_id) : chapters[c].is_published}

\* .order_by(Chapter.order_index).first()
FirstChapter(ids) ==
    CHOOSE c \in ids : \A d \in ids :
        \/ chapters[c].order_index < chapters[d].order_index
        \/ chapters[c].order_index = chapters[d].order_index /\ c <= d

enroll_in_course(u, course_slug) ==
    LET auth == get_current_verified_user_code(u)
        found == PublishedCoursesBySlug(course_slug)
    IN
    IF auth # 200 THEN Reject("enroll_in_course", auth, "auth", u, 0)
    ELSE IF found = {} THEN Reject("enroll_in_course", 404, "Course not found", u, 0)
    ELSE
    LET course_id == Min(found)
        existing_progress == UserProgressRows(u, course_id)
        enrolled_courses == Cardinality({p \in DOMAIN progress : progress[p].user_id = u})
        published == PublishedChapters(course_id)
    IN
    IF existing_progress # {}
    THEN Reject("enroll_in_course", 200, "Already enrolled in this course", u, course_id)
    ELSE IF enrolled_courses >= users[u].max_courses
    THEN Reject("enroll_in_course", 403, "Course enrollment limit reached", u, course_id)
    ELSE IF published = {}
    THEN Reject("enroll_in_course", 400, "Course has no available chapters", u, course_id)
    ELSE
        /\ progress' = progress @@
               (next_id.progress :> NewUserProgress(u, course_id, FirstChapter(published)))
        /\ next_id' = [next_id EXCEPT !.progress = @ + 1]
        /\ courses' = [courses EXCEPT ![course_id].enrolled_count = @ + 1]
        /\ resp' = Response("enroll_in_course", 200, "Successfully enrolled in course",
                            u, course_id)
        /\ UNCHANGED <<now, users, chapters, segments, paths, attempts, user_xp,
                       admin_log, call, ret, tokens>>

PublishedSegments(chapter_id) ==
    {s \in DOMAIN segments : segments[s].chapter_id = chapter_id /\ segments[s].is_published}

\* today's XP of the user: the ledger rows earned on the current calendar day
TodayXP(u) ==
    SumXP(user_xp, {r \in DOMAIN user_xp : r.user_id = u /\ DateOf(r.earned_at) = DateOf(now)})

\* if segment_id not in user_progress.completed_segments: mark it completed
CompleteSegment(stored, segment_id, score) ==
    IF ~InSeq(segment_id, stored.completed_segments)
    THEN [stored EXCEPT !.completed_segments = Append(@, segment_id),
                        !.segment_scores = DictSet(@, segment_id, score)]
    ELSE stored

\* every published segment of the chapter is completed and the chapter is not yet
ChapterCompletes(obj, chapter_id) ==
    /\ \A s \in PublishedSegments(chapter_id) : InSeq(s, obj.completed_segments)
    /\ ~InSeq(chapter_id, obj.completed_chapters)

\* int(sum of the chapter's segment scores / number of its published segments)
ChapterScore(obj, chapter_id) ==
    Trunc(SumDict(obj.segment_scores, PublishedSegments(chapter_id)),
          Cardinality(PublishedSegments(chapter_id)))

\* an insert that skips a row whose attempt_number the learner's rows already hold
InsertAttempt_unique(rows, attempt) ==
    IF \E i \in 1..Len(rows) : rows[i].attempt_number = attempt.attempt_number
    THEN rows ELSE Append(rows, attempt)

\* db.add(attempt): segment_attempts has no unique key over (user, segment, attempt_number)
InsertAttempt(rows, attempt) == Append(rows, attempt)

(* What the unit of work writes for a mapped row at commit: an UPDATE of   *)
(* the attributes the request changed on the object it loaded; the other   *)
(* columns keep what the table holds by then.                              *)
OrmFlush(current, loaded, obj) ==
    [f \in DOMAIN current |-> IF obj[f] # loaded[f] THEN obj[f] ELSE current[f]]

\* user_progress of the caller for the segment's course: .first(), or None
LoadProgress(u, segment_id) ==
    LET rows == UserProgressRows(u, chapters[segments[segment_id].chapter_id].course_id)
    IN  IF rows = {} THEN None ELSE Some([id |-> Min(rows), row |-> progress[Min(rows)]])

(* submit_segment after its two limit checks: grade, award, complete the   *)
(* chapter, unlock, save.  sub is the SegmentSubmission payload;           *)
(* existing_attempts, loaded_user and loaded_progress are what the request *)
(* read before the checks.                                                 *)
submit_segment_commit(u, segment_id, sub, existing_attempts, loaded_user, loaded_progress) ==
    LET segment == segments[segment_id]
        chapter_id == segment.chapter_id
        course_id == chapters[chapter_id].course_id
        attempt_number == existing_attempts + 1
        \* the simulated run reports every test case passed
        test_results == IF segment.type = "activity"
                        THEN Some([i \in 1..segment.n_test_cases |-> TRUE]) ELSE None
        mcq_answers == IF segment.type = "explanation" THEN sub.mcq_answers ELSE None
        score == calculate_score(segment.type, test_results, mcq_answers,
                                 segment.mcq_questions)
        xp_earned == calculate_xp_for_attempt(segment.xp_value, attempt_number,
                                              sub.hints_used, sub.solution_viewed)
        passed == score >= segment.required_score
        attempt == [attempt_number |-> attempt_number,
                    status |-> IF passed THEN "passed" ELSE "failed",
                    score |-> score, xp_earned |-> xp_earned,
                    time_spent |-> sub.time_spent, completed_at |-> now]
        user1 == IF passed THEN add_xp(loaded_user, xp_earned) ELSE loaded_user
        user2 == update_streak(user1, now)
        xp_record == [user_id |-> u, xp_amount |-> xp_earned, earned_at |-> now,
                      course_id |-> course_id, chapter_id |-> chapter_id,
                      segment_id |-> segment_id]
        \* user_progress is None for a caller who is not enrolled
        no_progress == IsNone(loaded_progress)
        pid == IF no_progress THEN 0 ELSE Get(loaded_progress).id
        stored == Get(loaded_progress).row
        obj1 == CompleteSegment(stored, segment_id, score)
        chapter_segments == PublishedSegments(chapter_id)
        completes == ChapterCompletes(obj1, chapter_id)
        chapter_score == ChapterScore(obj1, chapter_id)
        obj2 == IF completes
                THEN UnlockAll(add_completed_chapter(obj1, chapter_id, chapter_score),
                               get_next_chapters_for_user(chapter_id, chapter_score))
                ELSE obj1
        raises == passed /\ (\/ no_progress
                             \/ completes /\ chapter_segments = {}
                             \/ completes /\ get_next_chapters_raises(chapter_id, chapter_score))
        user_row == OrmFlush(users[u], loaded_user, user2)
        progress_row == OrmFlush(progress[pid], stored, orm_flush_user_progress(stored, obj2))
        commit_ok == /\ CheckSegmentAttempt(attempt)
                     /\ CheckUser(user_row)
                     /\ passed => CheckUserXP(xp_record) /\ CheckUserProgress(progress_row)
    IN
    IF raises \/ ~commit_ok
    THEN /\ resp' = Response("submit_segment", 500, "Internal Server Error", u, segment_id)
         /\ UNCHANGED <<now, db, ret, tokens>>
    ELSE
        /\ attempts' = DictSet(attempts, <<u, segment_id>>,
                               InsertAttempt(AttemptsOf(u, segment_id), attempt))
        /\ users' = [users EXCEPT ![u] = user_row]
        /\ user_xp' = IF passed THEN LedgerAdd(user_xp, xp_record) ELSE user_xp
        /\ progress' = IF passed THEN [progress EXCEPT ![pid] = progress_row] ELSE progress
        /\ resp' = Response("submit_segment", 200,
                            IF passed THEN "passed" ELSE "failed", u, segment_id)
        /\ UNCHANGED <<now, courses, chapters, segments, paths, admin_log, next_id,
                       ret, tokens>>

\* one request from its reads to its commit, with no other request in between
submit_segment_grade(u, segment_id, sub, existing_attempts) ==
    /\ submit_segment_commit(u, segment_id, sub, existing_attempts, users[u],
                             LoadProgress(u, segment_id))
    /\ UNCHANGED call

\* an attempt past the limit, counted one too late
attempts_limit_reached_off_by_one(existing_attempts, max_attempts) ==
    existing_attempts > max_attempts

\* if existing_attempts >= segment.max_attempts
attempts_limit_reached(existing_attempts, max_attempts) ==
    existing_attempts >= max_attempts

submit_segment(u, segment_id, sub) ==
    LET auth == get_current_verified_user_code(u)
    IN
    IF auth # 200 THEN Reject("submit_segment", auth, "auth", u, segment_id)
    ELSE IF segment_id \notin DOMAIN segments
    THEN Reject("submit_segment", 404, "Segment not found", u, segment_id)
    ELSE
    LET existing_attempts == Len(AttemptsOf(u, segment_id))
    IN
    IF attempts_limit_reached(existing_attempts, segments[segment_id].max_attempts)
    THEN Reject("submit_segment", 403, "Maximum attempts reached", u, segment_id)
    ELSE IF TodayXP(u) >= users[u].daily_xp_limit
    THEN Reject("submit_segment", 403, "Daily XP limit reached", u, segment_id)
    ELSE submit_segment_grade(u, segment_id, sub, existing_attempts)

----------------------------------------------------------------------------
(* Admin courses router.                                                   *)

LogEntry(user_id, action, entity_type, entity_id) ==
    [user_id |-> user_id, action |-> action, entity_type |-> entity_type,
     entity_id |-> entity_id]

ChapterSegments(chapter_id) == {s \in DOMAIN segments : segments[s].chapter_id = chapter_id}

RECURSIVE SumXpValues(_)
SumXpValues(ids) ==
    IF ids = {} THEN 0
    ELSE LET x == CHOOSE y \in ids : TRUE
         IN  segments[x].xp_value + SumXpValues(ids \ {x})

\* Chapter.calculate_total_xp
Chapter_calculate_total_xp(chapter_id) == SumXpValues(ChapterSegments(chapter_id))

\* Course.calculate_total_xp: the segments of the course's chapters
Course_calculate_total_xp(course_id) ==
    SumXpValues({s \in DOMAIN segments : segments[s].chapter_id \in CourseChapters(course_id)})

\* a slug lookup that sees published courses only
CoursesBySlug_published_only(slug) ==
    {c \in DOMAIN courses : courses[c].slug = slug /\ courses[c].status = "published"}

CoursesBySlug(slug) == {c \in DOMAIN courses : courses[c].slug = slug}

ActiveEnrollments(course_id) ==
    {p \in DOMAIN progress : progress[p].course_id = course_id
                             /\ progress[p].status = "in_progress"}

create_course(admin, slug) ==
    LET auth == get_current_admin_user_code(admin)
    IN
    IF auth # 200 THEN Reject("create_course", auth, "auth", admin, 0)
    ELSE IF CoursesBySlug(slug) # {}
    THEN Reject("create_course", 400, "Course with this slug already exists", admin, 0)
    ELSE
        /\ Len(admin_log) < MaxLog
        /\ Cardinality(DOMAIN courses) < MaxCourses
        /\ courses' = courses @@ (next_id.course :> NewCourse(slug, admin))
        /\ next_id' = [next_id EXCEPT !.course = @ + 1]
        \* the log entry is built before the flush: new_course.id is still None
        /\ admin_log' = Append(admin_log, LogEntry(admin, "create", "course", None))
        /\ resp' = Response("create_course", 201, "created", admin, next_id.course)
        /\ UNCHANGED <<now, users, chapters, segments, paths, progress, attempts,
                       user_xp, call, ret, tokens>>

delete_course(admin, course_id) ==
    LET auth == get_current_admin_user_code(admin)
    IN
    IF auth # 200 THEN Reject("delete_course", auth, "auth", admin, course_id)
    ELSE IF course_id \notin DOMAIN courses
    THEN Reject("delete_course", 404, "Course not found", admin, course_id)
    ELSE IF Cardinality(ActiveEnrollments(course_id)) > 0
    THEN Reject("delete_course", 400, "Cannot delete course with active enrollments",
                admin, course_id)
    ELSE
        /\ Len(admin_log) < MaxLog
        /\ courses' = [courses EXCEPT ![course_id].status = "archived"]
        /\ admin_log' = Append(admin_log,
                               LogEntry(admin, "delete", "course", Some(course_id)))
        /\ resp' = Response("delete_course", 200, "Course archived successfully",
                            admin, course_id)
        /\ UNCHANGED <<now, users, chapters, segments, paths, progress, attempts,
                       user_xp, next_id, call, ret, tokens>>

publish_course_restamp(admin, course_id) ==
    /\ course_id \in DOMAIN courses
    /\ Len(admin_log) < MaxLog
    /\ courses' = [courses EXCEPT ![course_id].status = "published",
                                  ![course_id].published_at = Some(now)]
    /\ admin_log' = Append(admin_log, LogEntry(admin, "publish", "course", Some(course_id)))
    /\ resp' = Response("publish_course", 200, "Course published successfully",
                        admin, course_id)
    /\ UNCHANGED <<now, users, chapters, segments, paths, progress, attempts,
                   user_xp, next_id, call, ret, tokens>>

publish_course(admin, course_id) ==
    LET auth == get_current_admin_user_code(admin)
    IN
    IF auth # 200 THEN Reject("publish_course", auth, "auth", admin, course_id)
    ELSE IF course_id \notin DOMAIN courses
    THEN Reject("publish_course", 404, "Course not found", admin, course_id)
    ELSE IF courses[course_id].status = "published"
    THEN Reject("publish_course", 200, "Course is already published", admin, course_id)
    ELSE IF Cardinality(PublishedChapters(course_id)) = 0
    THEN Reject("publish_course", 400, "Course must have at least one published chapter",
                admin, course_id)
    ELSE
        /\ Len(admin_log) < MaxLog
        /\ courses' = [courses EXCEPT
                          ![course_id].status = "published",
                          ![course_id].published_at = Some(now),
                          ![course_id].total_xp = Course_calculate_total_xp(course_id)]
        /\ admin_log' = Append(admin_log,
                               LogEntry(admin, "publish", "course", Some(course_id)))
        /\ resp' = Response("publish_course", 200, "Course published successfully",
                            admin, course_id)
        /\ UNCHANGED <<now, users, chapters, segments, paths, progress, attempts,
                       user_xp, next_id, call, ret, tokens>>

unpublish_course(admin, course_id) ==
    LET auth == get_current_admin_user_code(admin)
    IN
    IF auth # 200 THEN Reject("unpublish_course", auth, "auth", admin, course_id)
    ELSE IF course_id \notin DOMAIN courses
    THEN Reject("unpublish_course", 404, "Course not found", admin, course_id)
    ELSE IF courses[course_id].status # "published"
    THEN Reject("unpublish_course", 200, "Course is not published", admin, course_id)
    ELSE
        /\ Len(admin_log) < MaxLog
        /\ courses' = [courses EXCEPT ![course_id].status = "draft"]
        /\ admin_log' = Append(admin_log,
                               LogEntry(admin, "unpublish", "course", Some(course_id)))
        /\ resp' = Response("unpublish_course", 200, "Course unpublished successfully",
                            admin, course_id)
        /\ UNCHANGED <<now, users, chapters, segments, paths, progress, attempts,
                       user_xp, next_id, call, ret, tokens>>

IndexOf(seq, x) == CHOOSE i \in 1..Len(seq) : seq[i] = x

RECURSIVE SegmentsInOrder(_)
\* the segments of the chapters of chs, chapter by chapter
SegmentsInOrder(chs) ==
    IF chs = <<>> THEN <<>>
    ELSE SetToSortedSeq(ChapterSegments(Head(chs))) \o SegmentsInOrder(Tail(chs))

\* a duplication that copies no path
PathsInOrder_none(chs, mapped) == <<>>

RECURSIVE PathsInOrder(_, _)
\* the outgoing paths of the chapters of chs whose destination is in mapped
PathsInOrder(chs, mapped) ==
    IF chs = <<>> THEN <<>>
    ELSE SetToSortedSeq({p \in OutgoingPaths(Head(chs)) : paths[p].to_chapter_id \in mapped})
         \o PathsInOrder(Tail(chs), mapped)

duplicate_course(admin, course_id, new_slug) ==
    LET auth == get_current_admin_user_code(admin)
    IN
    IF auth # 200 THEN Reject("duplicate_course", auth, "auth", admin, course_id)
    ELSE IF course_id \notin DOMAIN courses
    THEN Reject("duplicate_course", 404, "Course not found", admin, course_id)
    ELSE IF CoursesBySlug(new_slug) # {}
    THEN Reject("duplicate_course", 400, "Course with this slug already exists",
                admin, course_id)
    ELSE
    LET original == courses[course_id]
        new_course_id == next_id.course
        new_course == [NewCourse(new_slug, admin) EXCEPT
                          !.difficulty_level = original.difficulty_level,
                          !.category = original.category]
        old_chapters == SetToSortedSeq(CourseChapters(course_id))
        chapter_mapping(old) == next_id.chapter + IndexOf(old_chapters, old) - 1
        old_segments == SegmentsInOrder(old_chapters)
        old_paths == PathsInOrder(old_chapters, CourseChapters(course_id))
        new_chapters == [id \in next_id.chapter .. (next_id.chapter + Len(old_chapters) - 1) |->
            LET o == chapters[old_chapters[id - next_id.chapter + 1]]
            IN  [o EXCEPT !.course_id = new_course_id, !.is_published = FALSE,
                          !.total_xp = 0]]
        new_segments == [id \in next_id.segment .. (next_id.segment + Len(old_segments) - 1) |->
            LET o == segments[old_segments[id - next_id.segment + 1]]
            IN  [o EXCEPT !.chapter_id = chapter_mapping(o.chapter_id),
                          !.is_published = FALSE]]
        new_paths == [id \in next_id.path .. (next_id.path + Len(old_paths) - 1) |->
            LET o == paths[old_paths[id - next_id.path + 1]]
            IN  [o EXCEPT !.from_chapter_id = chapter_mapping(o.from_chapter_id),
                          !.to_chapter_id = chapter_mapping(o.to_chapter_id)]]
    IN
        /\ Len(admin_log) < MaxLog
        /\ Cardinality(DOMAIN courses) < MaxCourses
        /\ courses' = courses @@ (new_course_id :> new_course)
        /\ chapters' = chapters @@ new_chapters
        /\ segments' = segments @@ new_segments
        /\ paths' = paths @@ new_paths
        /\ next_id' = [next_id EXCEPT !.course = @ + 1,
                                      !.chapter = @ + Len(old_chapters),
                                      !.segment = @ + Len(old_segments),
                                      !.path = @ + Len(old_paths)]
        /\ admin_log' = Append(admin_log,
                               LogEntry(admin, "create", "course", Some(new_course_id)))
        /\ resp' = Response("duplicate_course", 200, "duplicated", admin, new_course_id)
        /\ UNCHANGED <<now, users, progress, attempts, user_xp, call, ret, tokens>>

\* if value: an optional string that is present and not empty
HasValue(value) == ~IsNone(value) /\ Get(value) # ""

BulkActions == {"publish", "unpublish", "archive", "delete", "update_category",
                "update_difficulty", "toggle_featured"}

\* one iteration of bulk_operation's loop: the course row after it
BulkApply(action, value, c) ==
    LET course == courses[c]
    IN  IF action = "publish"
        THEN IF course.status # "published"
             THEN [course EXCEPT !.status = "published", !.published_at = Some(now)]
             ELSE course
        ELSE IF action = "unpublish"
        THEN IF course.status = "published" THEN [course EXCEPT !.status = "draft"]
             ELSE course
        ELSE IF action = "archive"
        THEN [course EXCEPT !.status = "archived"]
        ELSE IF action = "delete"
        THEN IF Cardinality(ActiveEnrollments(c)) = 0
             THEN [course EXCEPT !.status = "archived"]
             ELSE course
        ELSE IF action = "update_category" /\ HasValue(value)
        THEN [course EXCEPT !.category = value]
        ELSE IF action = "update_difficulty" /\ HasValue(value)
        THEN [course EXCEPT !.difficulty_level = Get(value)]
        ELSE IF action = "toggle_featured"
        THEN [course EXCEPT !.is_featured = ~course.is_featured]
        ELSE course

\* whether the iteration counted the course as a success / as a failure
BulkSucceeds(action, value, c) ==
    \/ action = "publish" /\ courses[c].status # "published"
    \/ action = "unpublish" /\ courses[c].status = "published"
    \/ action = "archive"
    \/ action = "delete" /\ Cardinality(ActiveEnrollments(c)) = 0
    \/ action \in {"update_category", "update_difficulty"} /\ HasValue(value)
    \/ action = "toggle_featured"

BulkFails(action, value, c) ==
    action = "delete" /\ Cardinality(ActiveEnrollments(c)) # 0

bulk_operation(admin, action, course_ids, value) ==
    LET auth == get_current_admin_user_code(admin)
        found == {c \in DOMAIN courses : InSeq(c, course_ids)}
    IN
    IF auth # 200 THEN Reject("bulk_operation", auth, "auth", admin, 0)
    ELSE IF Cardinality(found) # Len(course_ids)
    THEN Reject("bulk_operation", 400, "Some courses not found", admin, 0)
    ELSE
        /\ Len(admin_log) < MaxLog
        /\ courses' = [c \in DOMAIN courses |->
                          IF c \in found THEN BulkApply(action, value, c) ELSE courses[c]]
        /\ admin_log' = Append(admin_log, LogEntry(admin, "bulk_operation", "course", None))
        /\ resp' = [op |-> "bulk_operation", code |-> 200, detail |-> action,
                    success_count |-> Cardinality({c \in found : BulkSucceeds(action, value, c)}),
                    failed_ids |-> {c \in found : BulkFails(action, value, c)}]
        /\ UNCHANGED <<now, users, chapters, segments, paths, progress, attempts,
                       user_xp, next_id, call, ret, tokens>>

----------------------------------------------------------------------------
(* The empty database, and the model methods called on their own.          *)

NoResponse == Response("", 0, "", 0, 0)

EmptyDb ==
    /\ now = 0
    /\ users = <<>> /\ courses = <<>> /\ chapters = <<>> /\ segments = <<>>
    /\ paths = <<>> /\ progress = <<>> /\ attempts = <<>> /\ user_xp = <<>>
    /\ admin_log = <<>>
    /\ next_id = [course |-> 1, chapter |-> 1, segment |-> 1, path |-> 1, progress |-> 1]
    /\ resp = NoResponse

SeqsUpTo(S, n) == UNION {[1..k -> S] : k \in 0..n}
Optional(S) == {None} \cup {Some(v) : v \in S}

\* ---- Segment.calculate_xp_for_attempt on every small input ----
XpValues == 0..MaxXpValue \cup {100}

InitXP ==
    /\ EmptyDb
    /\ call \in [xp_value : XpValues, attempt_number : 1..MaxAttemptNumber,
                 hints_used : 0..MaxHintsUsed, solution_viewed : BOOLEAN]
    /\ ret = None
    /\ tokens = {}

Call_calculate_xp_for_attempt ==
    /\ ret = None
    /\ ret' = Some(calculate_xp_for_attempt(call.xp_value, call.attempt_number,
                                            call.hints_used, call.solution_viewed))
    /\ UNCHANGED <<now, db, resp, call, tokens>>

NextXP == Call_calculate_xp_for_attempt

SpecXP == InitXP /\ [][NextXP]_vars

\* ---- ChapterPath.evaluate_condition on every small path row and score ----
CondValues == 0..MaxCondValue \cup {70}
ScoreValues == 0..(MaxCondValue + 1) \cup {69, 70, 71, 100}

InitPath ==
    /\ EmptyDb
    /\ call \in [path : [is_default : BOOLEAN,
                         condition_type : Optional(CondTypes \cup {"default", ""}),
                         condition_value : Optional(CondValues)],
                 user_score : Optional(ScoreValues)]
    /\ ret = None
    /\ tokens = {}

Call_evaluate_condition ==
    /\ ret = None
    /\ ret' = Some(IF evaluate_condition_raises(call.path, call.user_score)
                   THEN [raised |-> TRUE, value |-> FALSE]
                   ELSE [raised |-> FALSE,
                         value |-> evaluate_condition(call.path, call.user_score)])
    /\ UNCHANGED <<now, db, resp, call, tokens>>

NextPath == Call_evaluate_condition

SpecPath == InitPath /\ [][NextPath]_vars

\* ---- SegmentAttempt.calculate_score on every small attempt ----
McqOptions == {"a", "b"}

InitScore ==
    /\ EmptyDb
    /\ \/ call \in [seg_type : {"explanation"}, test_results : {None},
                    mcq_answers : Optional(SeqsUpTo(McqOptions, MaxAnswers)),
                    mcq_questions : Optional(SeqsUpTo(McqOptions, MaxQuestions))]
       \/ call \in [seg_type : {"activity"},
                    test_results : Optional(SeqsUpTo(BOOLEAN, MaxQuestions)),
                    mcq_answers : {None}, mcq_questions : {None}]
    /\ ret = None
    /\ tokens = {}

Call_calculate_score ==
    /\ ret = None
    /\ ret' = Some(calculate_score(call.seg_type, call.test_results, call.mcq_answers,
                                   call.mcq_questions))
    /\ UNCHANGED <<now, db, resp, call, tokens>>

NextScore == Call_calculate_score

SpecScore == InitScore /\ [][NextScore]_vars

\* ---- User.update_streak on one users row, at arbitrary instants ----
InitStreak ==
    /\ now = 0
    /\ users = (1 :> NewUser(FALSE, TRUE, 10, 1000))
    /\ courses = <<>> /\ chapters = <<>> /\ segments = <<>>
    /\ paths = <<>> /\ progress = <<>> /\ attempts = <<>> /\ user_xp = <<>>
    /\ admin_log = <<>>
    /\ next_id = [course |-> 1, chapter |-> 1, segment |-> 1, path |-> 1, progress |-> 1]
    /\ resp = NoResponse
    /\ call = None
    /\ ret = None
    /\ tokens = {}

Call_update_streak(activity_date) ==
    /\ call' = Some([before |-> users[1], activity_date |-> activity_date])
    /\ users' = [users EXCEPT ![1] = update_streak(@, activity_date)]
    /\ UNCHANGED <<now, courses, chapters, segments, paths, progress, attempts,
                   user_xp, admin_log, next_id, resp, ret, tokens>>

NextStreak == \E activity_date \in 0..MaxInstant : Call_update_streak(activity_date)

SpecStreak == InitStreak /\ [][NextStreak]_vars

----------------------------------------------------------------------------
(* The learner flow: one published course and a verified learner who       *)
(* enrolls and submits while the clock advances.                           *)

ChapterRow(course_id, slug, order_index, is_published) ==
    [course_id |-> course_id, slug |-> slug, order_index |-> order_index,
     is_published |-> is_published, total_xp |-> 0]

SegmentRow(chapter_id, type, n_test_cases, mcq_questions, xp_value, required_score, max_attempts, is_published, order_index) ==
    [chapter_id |-> chapter_id, type |-> type, n_test_cases |-> n_test_cases,
     mcq_questions |-> mcq_questions, xp_value |-> xp_value,
     required_score |-> required_score, max_attempts |-> max_attempts,
     is_published |-> is_published, order_index |-> order_index]

PathRow(from_chapter_id, to_chapter_id, is_default, condition_type, condition_value, order_priority) ==
    [from_chapter_id |-> from_chapter_id, to_chapter_id |-> to_chapter_id,
     is_default |-> is_default, condition_type |-> condition_type,
     condition_value |-> condition_value, order_priority |-> order_priority,
     condition_label |-> None]

Submission(mcq_answers, hints_used, solution_viewed, time_spent) ==
    [mcq_answers |-> mcq_answers, hints_used |-> hints_used,
     solution_viewed |-> solution_viewed, time_spent |-> time_spent]

Submissions ==
    {Submission(None, 0, FALSE, 30),
     Submission(Some(<<"a", "a">>), 0, FALSE, 30),
     Submission(Some(<<"b", "a">>), 5, FALSE, 0)}

Init ==
    /\ now = 0
    /\ users = (1 :> NewUser(FALSE, TRUE, 10, 15))
    /\ courses = (1 :> [NewCourse("py", 9) EXCEPT !.status = "published",
                                                  !.published_at = Some(0)])
    /\ chapters = (1 :> ChapterRow(1, "intro", 1, TRUE))
               @@ (2 :> ChapterRow(1, "next", 2, TRUE))
               @@ (3 :> ChapterRow(1, "review", 3, TRUE))
    /\ segments = (1 :> SegmentRow(1, "explanation", 0, Some(<<"a", "b">>), 10, 50, 2, TRUE, 0))
               @@ (2 :> SegmentRow(1, "activity", 1, None, 10, 100, 1, TRUE, 1))
               @@ (3 :> SegmentRow(1, "explanation", 0, None, 10, 70, 1, FALSE, 2))
               @@ (4 :> SegmentRow(2, "explanation", 0, Some(<<"a">>), 10, 70, 1, TRUE, 0))
    /\ paths = (1 :> PathRow(1, 2, FALSE, Some("score_gte"), Some(70), 0))
            @@ (2 :> PathRow(1, 3, TRUE, None, None, 1))
    /\ progress = <<>> /\ attempts = <<>> /\ user_xp = <<>> /\ admin_log = <<>>
    /\ next_id = [course |-> 2, chapter |-> 4, segment |-> 5, path |-> 3, progress |-> 1]
    /\ resp = NoResponse
    /\ call = None
    /\ ret = None
    /\ tokens = {}

Next ==
    \/ Tick
    \/ enroll_in_course(1, "py")
    \/ \E segment_id \in 1..5, sub \in Submissions : submit_segment(1, segment_id, sub)

Spec == Init /\ [][Next]_vars

----------------------------------------------------------------------------
(* Enrollment: three accounts and four courses.  Course 2 lists its first  *)
(* chapter second by id, course 3 has no published chapter, course 4 is a  *)
(* draft; account 2 may hold one course, account 3 is not verified.        *)

InitEnroll ==
    /\ now = 0
    /\ users = (1 :> NewUser(FALSE, TRUE, 10, 1000))
            @@ (2 :> NewUser(FALSE, TRUE, 1, 1000))
            @@ (3 :> NewUser(FALSE, FALSE, 10, 1000))
    /\ courses = (1 :> [NewCourse("py", 9) EXCEPT !.status = "published",
                                                  !.published_at = Some(0)])
              @@ (2 :> [NewCourse("js", 9) EXCEPT !.status = "published",
                                                  !.published_at = Some(0)])
              @@ (3 :> [NewCourse("go", 9) EXCEPT !.status = "published",
                                                  !.published_at = Some(0)])
              @@ (4 :> NewCourse("rs", 9))
    /\ chapters = (1 :> ChapterRow(1, "intro", 1, TRUE))
               @@ (2 :> ChapterRow(1, "next", 2, TRUE))
               @@ (3 :> ChapterRow(2, "late", 2, TRUE))
               @@ (4 :> ChapterRow(2, "early", 1, TRUE))
               @@ (5 :> ChapterRow(3, "hidden", 1, FALSE))
               @@ (6 :> ChapterRow(4, "intro", 1, TRUE))
    /\ segments = <<>> /\ paths = <<>>
    /\ progress = <<>> /\ attempts = <<>> /\ user_xp = <<>> /\ admin_log = <<>>
    /\ next_id = [course |-> 5, chapter |-> 7, segment |-> 1, path |-> 1, progress |-> 1]
    /\ resp = NoResponse
    /\ call = None
    /\ ret = None
    /\ tokens = {}

EnrollSlugs == {"py", "js", "go", "rs", "nope"}

NextEnroll ==
    \E u \in 1..3, course_slug \in EnrollSlugs : enroll_in_course(u, course_slug)

SpecEnroll == InitEnroll /\ [][NextEnroll]_vars

----------------------------------------------------------------------------
(* The admin course surface: an admin, a learner who enrolls, a published  *)
(* course with content, a publishable draft and a draft with no published  *)
(* chapter.                                                                *)

InitAdmin ==
    /\ now = 0
    /\ users = (1 :> NewUser(TRUE, TRUE, 10, 1000)) @@ (2 :> NewUser(FALSE, TRUE, 10, 1000))
    /\ courses = (1 :> [NewCourse("py", 1) EXCEPT !.status = "published",
                                                  !.published_at = Some(0),
                                                  !.total_xp = 20])
              @@ (2 :> NewCourse("js", 1))
              @@ (3 :> NewCourse("go", 1))
    /\ chapters = (1 :> ChapterRow(1, "intro", 1, TRUE))
               @@ (2 :> ChapterRow(1, "next", 2, TRUE))
               @@ (3 :> ChapterRow(2, "intro", 1, TRUE))
               @@ (4 :> ChapterRow(3, "hidden", 1, FALSE))
    /\ segments = (1 :> SegmentRow(1, "explanation", 0, Some(<<"a", "b">>), 10, 50, 2, TRUE, 0))
               @@ (2 :> SegmentRow(2, "activity", 1, None, 10, 100, 1, TRUE, 0))
               @@ (3 :> SegmentRow(3, "activity", 1, None, 5, 100, 1, TRUE, 0))
    /\ paths = (1 :> PathRow(1, 2, FALSE, Some("score_gte"), Some(70), 0))
            @@ (2 :> PathRow(2, 3, TRUE, None, None, 0))
    /\ progress = <<>> /\ attempts = <<>> /\ user_xp = <<>> /\ admin_log = <<>>
    /\ next_id = [course |-> 4, chapter |-> 5, segment |-> 4, path |-> 3, progress |-> 1]
    /\ resp = NoResponse
    /\ call = None
    /\ ret = None
    /\ tokens = {}

AdminCallers == {1, 2}
AdminSlugs == {"py", "js", "ts"}
AdminCourseIds == 1..(MaxCourses + 1)
BulkIdLists == {<<1>>, <<2, 3>>, <<3, 9>>}
BulkValues == {None, Some("advanced")}

NextAdmin ==
    \/ Tick
    \/ \E course_slug \in {"py", "js"} : enroll_in_course(2, course_slug)
    \/ \E a \in AdminCallers, slug \in AdminSlugs : create_course(a, slug)
    \/ \E c \in AdminCourseIds : delete_course(1, c)
    \/ \E c \in AdminCourseIds : publish_course(1, c)
    \/ \E c \in AdminCourseIds : unpublish_course(1, c)
    \/ \E c \in AdminCourseIds, slug \in AdminSlugs : duplicate_course(1, c, slug)
    \/ \E action \in BulkActions, ids \in BulkIdLists, value \in BulkValues :
           bulk_operation(1, action, ids, value)

SpecAdmin == InitAdmin /\ [][NextAdmin]_vars

----------------------------------------------------------------------------
(* Progress router: the all-time leaderboard over three accounts.          *)

\* ORDER BY total_xp DESC: any order of the rows with total_xp descending
\* (rows with equal total_xp come in an order the database chooses)
OrderedByTotalXp ==
    {o \in [1..Cardinality(DOMAIN users) -> DOMAIN users] :
        /\ \A i, j \in DOMAIN o : o[i] = o[j] => i = j
        /\ \A i \in DOMAIN o : i + 1 \in DOMAIN o =>
               users[o[i]].total_xp >= users[o[i + 1]].total_xp}

LeaderboardEntry(rank, user_id, is_current_user) ==
    [rank |-> rank, user_id |-> user_id, level |-> users[user_id].level,
     xp_amount |-> users[user_id].total_xp, is_current_user |-> is_current_user]

\* the rank of the caller: users with more XP, plus one
user_rank_strict(u) ==
    Cardinality({v \in DOMAIN users : users[v].total_xp > users[u].total_xp}) + 1

\* GET /progress/leaderboard?period=all&limit=...
get_leaderboard(u, limit) ==
    LET auth == get_current_user_code(u)
    IN
    IF auth # 200 THEN Reject("get_leaderboard", auth, "auth", u, 0)
    ELSE \E o \in OrderedByTotalXp :
        LET top_users == SubSeq(o, 1, Min({limit, Len(o)}))
            user_rank == user_rank_strict(u)
            leaderboard == [idx \in 1..Len(top_users) |->
                               LeaderboardEntry(idx, top_users[idx], top_users[idx] = u)]
        IN  /\ resp' = [op |-> "get_leaderboard", code |-> 200, detail |-> "all",
                        current_user |-> u, limit |-> limit,
                        leaderboard |-> IF user_rank > limit
                                        THEN Append(leaderboard,
                                                    LeaderboardEntry(user_rank, u, TRUE))
                                        ELSE leaderboard]
            /\ UNCHANGED <<now, db, call, ret, tokens>>

BoardXp == {0, 100, 300}

InitBoard ==
    /\ now = 0
    /\ users \in {[u \in 1..3 |-> add_xp(NewUser(FALSE, TRUE, 10, 1000), xp[u])] :
                     xp \in [1..3 -> BoardXp]}
    /\ courses = <<>> /\ chapters = <<>> /\ segments = <<>> /\ paths = <<>>
    /\ progress = <<>> /\ attempts = <<>> /\ user_xp = <<>> /\ admin_log = <<>>
    /\ next_id = [course |-> 1, chapter |-> 1, segment |-> 1, path |-> 1, progress |-> 1]
    /\ resp = NoResponse
    /\ call = None
    /\ ret = None
    /\ tokens = {}

NextBoard == \E u \in 1..4, limit \in 1..MaxLimit : get_leaderboard(u, limit)

SpecBoard == InitBoard /\ [][NextBoard]_vars

----------------------------------------------------------------------------
(* The admin gate: the course operations called by accounts with every     *)
(* combination of is_admin and is_verified.                                *)

InitGate ==
    /\ now = 0
    /\ users = (1 :> NewUser(TRUE, TRUE, 10, 1000))
            @@ (2 :> NewUser(FALSE, TRUE, 10, 1000))
            @@ (3 :> NewUser(TRUE, FALSE, 10, 1000))
            @@ (4 :> NewUser(FALSE, FALSE, 10, 1000))
    /\ courses = (1 :> NewCourse("py", 1))
    /\ chapters = (1 :> ChapterRow(1, "intro", 1, TRUE))
    /\ segments = (1 :> SegmentRow(1, "activity", 1, None, 10, 100, 1, TRUE, 0))
    /\ paths = <<>>
    /\ progress = <<>> /\ attempts = <<>> /\ user_xp = <<>> /\ admin_log = <<>>
    /\ next_id = [course |-> 2, chapter |-> 2, segment |-> 2, path |-> 1, progress |-> 1]
    /\ resp = NoResponse
    /\ call = None
    /\ ret = None
    /\ tokens = {}

GateCallers == 1..5
GateSlugs == {"py", "ts"}
GateCourseIds == 1..2

NextGate ==
    \/ \E a \in GateCallers, slug \in GateSlugs : create_course(a, slug)
    \/ \E a \in GateCallers, c \in GateCourseIds : delete_course(a, c)
    \/ \E a \in GateCallers, c \in GateCourseIds : publish_course(a, c)
    \/ \E a \in GateCallers, c \in GateCourseIds : unpublish_course(a, c)

SpecGate == InitGate /\ [][NextGate]_vars

----------------------------------------------------------------------------
(* Auth router: tokens, login and the password reset.                      *)

\* get_current_user's row lookup: the users row whose username is the
\* token's subject; 0 (no row) when the token does not verify
get_current_user(token) ==
    LET payload == verify_token(token)
        found == IF IsNone(payload) THEN {}
                 ELSE {u \in DOMAIN users : Username(u) = Get(payload).sub}
    IN  IF found = {} THEN 0 ELSE Min(found)

login(u, password) ==
    IF u \notin DOMAIN users
    THEN Reject("login", 401, "Incorrect username or password", u, 0)
    ELSE IF ~verify_password(password, users[u].hashed_password)
    THEN /\ Len(admin_log) < MaxLog
         /\ admin_log' = Append(admin_log,
                LogEntry(u, "login", "user", Some(u)) @@ [success |-> FALSE])
         /\ resp' = Response("login", 401, "Incorrect username or password", u, 0)
         /\ UNCHANGED <<now, users, courses, chapters, segments, paths, progress,
                        attempts, user_xp, next_id, call, ret, tokens>>
    ELSE IF ~users[u].is_active
    THEN Reject("login", 403, "User account is deactivated", u, 0)
    ELSE
    LET access_token == create_access_token(Username(u), AccessTokenTicks, None,
                            Some(users[u].is_admin), Some(users[u].is_verified))
    IN  /\ Len(admin_log) < MaxLog
        /\ tokens' = tokens \cup {access_token}
        /\ users' = [users EXCEPT ![u] = update_streak(@, now)]
        /\ admin_log' = Append(admin_log, LogEntry(u, "login", "user", Some(u)))
        /\ resp' = [op |-> "login", code |-> 200, detail |-> "bearer",
                    access_token |-> access_token]
        /\ UNCHANGED <<now, courses, chapters, segments, paths, progress,
                       attempts, user_xp, next_id, call, ret>>

\* an UPDATE of users.is_admin / users.is_verified made on the database
\* (no route of the application clears either flag)
set_privileges(u, is_admin, is_verified) ==
    /\ u \in DOMAIN users
    /\ users' = [users EXCEPT ![u].is_admin = is_admin, ![u].is_verified = is_verified]
    /\ resp' = Response("set_privileges", 0, "", u, 0)
    /\ UNCHANGED <<now, courses, chapters, segments, paths, progress, attempts,
                   user_xp, admin_log, next_id, call, ret, tokens>>

\* a token this server never signed
ForgedToken ==
    [sub |-> Username(1), exp |-> MaxTick + AccessTokenTicks + ResetTokenTicks + 1,
     iat |-> 0, type |-> None, is_admin |-> Some(TRUE), is_verified |-> Some(TRUE)]

InitToken ==
    /\ now = 0
    /\ users = (1 :> NewUser(TRUE, TRUE, 10, 1000)) @@ (2 :> NewUser(FALSE, FALSE, 10, 1000))
    /\ courses = (1 :> [NewCourse("py", 1) EXCEPT !.status = "published",
                                                  !.published_at = Some(0)])
    /\ chapters = (1 :> ChapterRow(1, "intro", 1, TRUE))
    /\ segments = <<>> /\ paths = <<>>
    /\ progress = <<>> /\ attempts = <<>> /\ user_xp = <<>> /\ admin_log = <<>>
    /\ next_id = [course |-> 2, chapter |-> 2, segment |-> 1, path |-> 1, progress |-> 1]
    /\ resp = NoResponse
    /\ call = None
    /\ ret = None
    /\ tokens = {}

WrongPassword == Password("wrong", 10, TRUE, TRUE, TRUE, TRUE)

NextToken ==
    \/ Tick
    \/ \E u \in 1..3, password \in {InitialPassword, WrongPassword} : login(u, password)
    \/ \E u \in 1..2, is_admin \in BOOLEAN, is_verified \in BOOLEAN :
           set_privileges(u, is_admin, is_verified)
    \/ \E t \in tokens \cup {ForgedToken} : create_course(get_current_user(t), "ts")
    \/ \E t \in tokens \cup {ForgedToken} : enroll_in_course(get_current_user(t), "py")

SpecToken == InitToken /\ [][NextToken]_vars

----------------------------------------------------------------------------
(* The password reset: two active accounts and a deactivated one.          *)

UsersByEmail(email) == {u \in DOMAIN users : Email(u) = email}

\* POST /auth/request-password-reset; email_of is the account the address
\* belongs to (an id outside the table is an unknown address)
request_password_reset(email_of) ==
    LET found == UsersByEmail(Email(email_of))
    IN
    IF found # {} /\ users[Min(found)].is_active
    THEN LET u == Min(found)
             reset_token == create_password_reset_token(Email(u))
         IN  /\ users' = [users EXCEPT ![u].password_reset_token = Some(reset_token)]
             /\ tokens' = tokens \cup {reset_token}
             /\ resp' = Response("request_password_reset", 200,
                                 "If the email exists, a password reset link has been sent",
                                 u, 0)
             /\ UNCHANGED <<now, courses, chapters, segments, paths, progress, attempts,
                            user_xp, admin_log, next_id, call, ret>>
    ELSE Reject("request_password_reset", 200,
                "If the email exists, a password reset link has been sent", email_of, 0)

\* a comparison that accepts any token of the account
reset_token_matches_any(stored, token) == TRUE

\* user.password_reset_token != reset_data.token, negated
reset_token_matches(stored, token) == stored = Some(token)

\* POST /auth/reset-password
reset_password(token, new_password) ==
    LET email == verify_password_reset_token(token)
        found == IF IsNone(email) THEN {} ELSE UsersByEmail(Get(email))
    IN
    IF IsNone(email)
    THEN Reject("reset_password", 400, "Invalid or expired reset token", 0, 0)
    ELSE IF found = {}
    THEN Reject("reset_password", 404, "User not found", 0, 0)
    ELSE IF ~reset_token_matches(users[Min(found)].password_reset_token, token)
    THEN Reject("reset_password", 400, "Invalid reset token", Min(found), 0)
    ELSE IF ~check_password_strength(new_password).valid
    THEN Reject("reset_password", 400, "Password does not meet requirements", Min(found), 0)
    ELSE
        /\ users' = [users EXCEPT
                        ![Min(found)].hashed_password = get_password_hash(new_password),
                        ![Min(found)].password_reset_token = None]
        /\ resp' = Response("reset_password", 200, "Password reset successfully",
                            Min(found), 0)
        /\ UNCHANGED <<now, courses, chapters, segments, paths, progress, attempts,
                       user_xp, admin_log, next_id, call, ret, tokens>>

StrongPassword == Password("strong", 12, TRUE, TRUE, TRUE, TRUE)
WeakPassword == Password("weak", 7, TRUE, TRUE, TRUE, FALSE)
ResetPasswords == {StrongPassword, WeakPassword}

\* a reset token this server never signed
ForgedResetToken ==
    [sub |-> Email(1), exp |-> MaxTick + AccessTokenTicks + ResetTokenTicks + 1,
     iat |-> 0, type |-> Some("password_reset"), is_admin |-> None, is_verified |-> None]

InitReset ==
    /\ now = 0
    /\ users = (1 :> NewUser(FALSE, TRUE, 10, 1000))
            @@ (2 :> NewUser(FALSE, TRUE, 10, 1000))
            @@ (3 :> [NewUser(FALSE, TRUE, 10, 1000) EXCEPT !.is_active = FALSE])
    /\ courses = <<>> /\ chapters = <<>> /\ segments = <<>> /\ paths = <<>>
    /\ progress = <<>> /\ attempts = <<>> /\ user_xp = <<>> /\ admin_log = <<>>
    /\ next_id = [course |-> 1, chapter |-> 1, segment |-> 1, path |-> 1, progress |-> 1]
    /\ resp = NoResponse
    /\ call = None
    /\ ret = None
    /\ tokens = {}

NextReset ==
    \/ Tick
    \/ \E password \in {InitialPassword, StrongPassword} : login(1, password)
    \/ \E email_of \in 1..4 : request_password_reset(email_of)
    \/ \E t \in tokens \cup {ForgedResetToken}, new_password \in ResetPasswords :
           reset_password(t, new_password)

SpecReset == InitReset /\ [][NextReset]_vars

----------------------------------------------------------------------------
(* User.add_xp called repeatedly on a new account.                         *)

XpAmounts == {0, 1, 10, 99, 100, 250}

Call_add_xp(amount) ==
    /\ users[1].total_xp + amount <= MaxTotalXp
    /\ call' = Some([before |-> users[1], amount |-> amount])
    /\ users' = [users EXCEPT ![1] = add_xp(@, amount)]
    /\ UNCHANGED <<now, courses, chapters, segments, paths, progress, attempts,
                   user_xp, admin_log, next_id, resp, ret, tokens>>

NextLevel == \E amount \in XpAmounts : Call_add_xp(amount)

SpecLevel == InitStreak /\ [][NextLevel]_vars

----------------------------------------------------------------------------
(* The learner's reading routes: get_chapter, get_segment and              *)
(* update_learning_position.                                               *)

OrderIndex(segment_id) == segments[segment_id].order_index

\* .order_by(Segment.order_index.desc()).first()
LastSegment(ids) ==
    CHOOSE s \in ids : \A t \in ids :
        \/ OrderIndex(s) > OrderIndex(t)
        \/ OrderIndex(s) = OrderIndex(t) /\ s <= t

PublishedCoursesChapter(course_id, chapter_slug, published_only) ==
    {c \in CourseChapters(course_id) :
        /\ chapters[c].slug = chapter_slug
        /\ published_only => chapters[c].is_published}

\* GET /courses/{course_slug}/chapters/{chapter_slug}
get_chapter(u, course_slug, chapter_slug) ==
    LET auth == get_current_verified_user_code(u)
        found == PublishedCoursesBySlug(course_slug)
    IN
    IF auth # 200 THEN Reject("get_chapter", auth, "auth", u, 0)
    ELSE IF found = {} THEN Reject("get_chapter", 404, "Course not found", u, 0)
    ELSE IF UserProgressRows(u, Min(found)) = {}
    THEN Reject("get_chapter", 403, "Not enrolled in this course", u, 0)
    ELSE IF PublishedCoursesChapter(Min(found), chapter_slug, TRUE) = {}
    THEN Reject("get_chapter", 404, "Chapter not found", u, 0)
    ELSE
    LET pid == Min(UserProgressRows(u, Min(found)))
        chapter_id == Min(PublishedCoursesChapter(Min(found), chapter_slug, TRUE))
        user_progress == progress[pid]
        incomplete == {s \in PublishedSegments(chapter_id) :
                          ~InSeq(s, user_progress.completed_segments)}
    IN
    IF ~InSeq(chapter_id, user_progress.unlocked_chapters)
    THEN Reject("get_chapter", 403,
                "Chapter is locked. Complete previous chapters to unlock.", u, chapter_id)
    ELSE
        /\ progress' = [progress EXCEPT
               ![pid].current_chapter_id = Some(chapter_id),
               ![pid].last_activity_at = Some(now),
               ![pid].current_segment_id =
                   IF IsNone(@) /\ incomplete # {} THEN Some(Min(incomplete)) ELSE @]
        /\ resp' = Response("get_chapter", 200, chapter_slug, u, chapter_id)
        /\ UNCHANGED <<now, users, courses, chapters, segments, paths, attempts,
                       user_xp, admin_log, next_id, call, ret, tokens>>

\* GET /courses/{course_slug}/chapters/{chapter_slug}/segments/{segment_id}
get_segment(u, course_slug, chapter_slug, segment_id) ==
    LET auth == get_current_verified_user_code(u)
        found == PublishedCoursesBySlug(course_slug)
    IN
    IF auth # 200 THEN Reject("get_segment", auth, "auth", u, 0)
    ELSE IF found = {} THEN Reject("get_segment", 404, "Course not found", u, 0)
    ELSE IF PublishedCoursesChapter(Min(found), chapter_slug, FALSE) = {}
    THEN Reject("get_segment", 404, "Chapter not found", u, 0)
    ELSE
    LET chapter_id == Min(PublishedCoursesChapter(Min(found), chapter_slug, FALSE))
        rows == UserProgressRows(u, Min(found))
        previous == {s \in PublishedSegments(chapter_id) :
                        OrderIndex(s) < OrderIndex(segment_id)}
    IN
    IF segment_id \notin PublishedSegments(chapter_id)
    THEN Reject("get_segment", 404, "Segment not found", u, segment_id)
    ELSE IF rows = {} \/ ~InSeq(chapter_id, progress[Min(rows)].unlocked_chapters)
    THEN Reject("get_segment", 403, "Access denied", u, segment_id)
    ELSE IF previous # {} /\ ~InSeq(LastSegment(previous), progress[Min(rows)].completed_segments)
    THEN Reject("get_segment", 403, "Complete previous segments to unlock this one",
                u, segment_id)
    ELSE
        /\ progress' = [progress EXCEPT ![Min(rows)].current_segment_id = Some(segment_id)]
        /\ resp' = Response("get_segment", 200, chapter_slug, u, segment_id)
        /\ UNCHANGED <<now, users, courses, chapters, segments, paths, attempts,
                       user_xp, admin_log, next_id, call, ret, tokens>>

\* POST /progress/update-position; chapter_id and segment_id are optional
update_learning_position(u, course_id, chapter_id, segment_id) ==
    LET auth == get_current_verified_user_code(u)
        rows == UserProgressRows(u, course_id)
    IN
    IF auth # 200 THEN Reject("update_learning_position", auth, "auth", u, 0)
    ELSE IF rows = {}
    THEN Reject("update_learning_position", 404, "Not enrolled in this course", u, 0)
    ELSE
    LET pid == Min(rows)
        stored == progress[pid]
        accessible == {s \in DOMAIN segments :
                          InSeq(segments[s].chapter_id, stored.unlocked_chapters)}
    IN
    IF ~IsNone(chapter_id) /\ ~InSeq(Get(chapter_id), stored.unlocked_chapters)
    THEN Reject("update_learning_position", 403, "Chapter is locked", u, 0)
    ELSE IF ~IsNone(segment_id) /\ Get(segment_id) \notin accessible
    THEN Reject("update_learning_position", 403, "Segment is not accessible", u, 0)
    ELSE
        /\ progress' = [progress EXCEPT
               ![pid].current_chapter_id = IF IsNone(chapter_id) THEN @ ELSE chapter_id,
               ![pid].current_segment_id = IF IsNone(segment_id) THEN @ ELSE segment_id,
               ![pid].last_activity_at = Some(now)]
        /\ resp' = Response("update_learning_position", 200,
                            "Position updated successfully", u, 0)
        /\ UNCHANGED <<now, users, courses, chapters, segments, paths, attempts,
                       user_xp, admin_log, next_id, call, ret, tokens>>

\* ---- one course whose paths lead back to unlocked chapters ----
InitUnlock ==
    /\ now = 0
    /\ users = (1 :> NewUser(FALSE, TRUE, 10, 1000))
    /\ courses = (1 :> [NewCourse("py", 9) EXCEPT !.status = "published",
                                                  !.published_at = Some(0)])
    /\ chapters = (1 :> ChapterRow(1, "intro", 1, TRUE))
               @@ (2 :> ChapterRow(1, "next", 2, TRUE))
               @@ (3 :> ChapterRow(1, "review", 3, TRUE))
    /\ segments = (1 :> SegmentRow(1, "explanation", 0, Some(<<"a", "a">>), 10, 50, 1, TRUE, 0))
               @@ (2 :> SegmentRow(2, "explanation", 0, Some(<<"a", "a">>), 10, 50, 1, TRUE, 0))
               @@ (3 :> SegmentRow(3, "activity", 1, None, 10, 100, 1, TRUE, 0))
    /\ paths = (1 :> PathRow(1, 2, FALSE, Some("score_gte"), Some(70), 0))
            @@ (2 :> PathRow(1, 3, TRUE, None, None, 1))
            @@ (3 :> PathRow(2, 1, FALSE, Some("score_gte"), Some(0), 0))
            @@ (4 :> PathRow(2, 3, FALSE, Some("score_gte"), Some(0), 1))
            @@ (5 :> PathRow(3, 2, TRUE, None, None, 0))
    /\ progress = <<>> /\ attempts = <<>> /\ user_xp = <<>> /\ admin_log = <<>>
    /\ next_id = [course |-> 2, chapter |-> 4, segment |-> 4, path |-> 6, progress |-> 1]
    /\ resp = NoResponse
    /\ call = None
    /\ ret = None
    /\ tokens = {}

UnlockSubmissions ==
    {Submission(Some(<<"a", "a">>), 0, FALSE, 30), Submission(Some(<<"b", "b">>), 0, FALSE, 30)}

UnlockSlugs == {"intro", "next", "review", "nope"}

NextUnlock ==
    \/ enroll_in_course(1, "py")
    \/ \E segment_id \in 1..3, sub \in UnlockSubmissions : submit_segment(1, segment_id, sub)
    \/ \E chapter_slug \in UnlockSlugs : get_chapter(1, "py", chapter_slug)
    \/ \E chapter_slug \in UnlockSlugs, segment_id \in 1..3 :
           get_segment(1, "py", chapter_slug, segment_id)
    \/ \E chapter_id \in {None, Some(1), Some(3)}, segment_id \in {None, Some(2)} :
           update_learning_position(1, 1, chapter_id, segment_id)

SpecUnlock == InitUnlock /\ [][NextUnlock]_vars

----------------------------------------------------------------------------
(* Admin chapters router.  The sessions are made with autoflush off: a     *)
(* query sees the tables as they were when the request began, plus the     *)
(* attribute changes made on objects the session has already loaded.       *)

\* db.query(func.max(...)).scalar() or -1: None and 0 are both falsy
MaxOrderOr(order_indices) ==
    IF order_indices = {} \/ Max(order_indices) = 0 THEN -1 ELSE Max(order_indices)

\* POST /admin/chapters/
create_chapter(admin, course_id, slug) ==
    LET auth == get_current_admin_user_code(admin)
    IN
    IF auth # 200 THEN Reject("create_chapter", auth, "auth", admin, 0)
    ELSE IF course_id \notin DOMAIN courses
    THEN Reject("create_chapter", 404, "Course not found", admin, 0)
    ELSE IF \E c \in CourseChapters(course_id) : chapters[c].slug = slug
    THEN Reject("create_chapter", 400,
                "Chapter with this slug already exists in the course", admin, 0)
    ELSE
    LET max_order == MaxOrderOr({chapters[c].order_index : c \in CourseChapters(course_id)})
    IN  /\ Len(admin_log) < MaxEdits
        /\ chapters' = chapters @@
               (next_id.chapter :> ChapterRow(course_id, slug, max_order + 1, FALSE))
        /\ next_id' = [next_id EXCEPT !.chapter = @ + 1]
        \* the log entry is built before the flush: new_chapter.id is still None
        /\ admin_log' = Append(admin_log, LogEntry(admin, "create", "chapter", None))
        /\ resp' = Response("create_chapter", 201, "created", admin, next_id.chapter)
        /\ UNCHANGED <<now, users, courses, segments, paths, progress, attempts,
                       user_xp, call, ret, tokens>>

(* UserProgress.completed_chapters.contains([chapter_id]): the columns are  *)
(* sqlalchemy.JSON, whose comparator has no containment operator, so the   *)
(* expression is the string operator: column LIKE '%' || '[id]' || '%'.    *)
(* PostgreSQL has no LIKE for the json type and fails the statement;       *)
(* SQLite (settings.TESTING) matches the stored text of the list, which    *)
(* is written "[a, b, c]" and holds "[id]" only when the list is [id].     *)
Dialects == {"postgresql", "sqlite"}

contains(column, chapter_id) == column = <<chapter_id>>

IncomingPaths(chapter_id) == {p \in DOMAIN paths : paths[p].to_chapter_id = chapter_id}

\* DELETE /admin/chapters/{chapter_id}
delete_chapter(admin, chapter_id, dialect) ==
    LET auth == get_current_admin_user_code(admin)
    IN
    IF auth # 200 THEN Reject("delete_chapter", auth, "auth", admin, chapter_id)
    ELSE IF chapter_id \notin DOMAIN chapters
    THEN Reject("delete_chapter", 404, "Chapter not found", admin, chapter_id)
    ELSE IF dialect = "postgresql"
    THEN Reject("delete_chapter", 500, "Internal Server Error", admin, chapter_id)
    ELSE
    LET chapter == chapters[chapter_id]
        users_with_progress == Cardinality({p \in DOMAIN progress :
            \/ progress[p].current_chapter_id = Some(chapter_id)
            \/ contains(progress[p].completed_chapters, chapter_id)
            \/ contains(progress[p].unlocked_chapters, chapter_id)})
        deleted_segments == ChapterSegments(chapter_id)
        remaining_chapters == {c \in CourseChapters(chapter.course_id) \ {chapter_id} :
                                  chapters[c].order_index > chapter.order_index}
    IN
    IF users_with_progress > 0
    THEN Reject("delete_chapter", 400, "Cannot delete chapter with users having progress",
                admin, chapter_id)
    \* the incoming paths are detached: to_chapter_id = NULL on a NOT NULL column
    ELSE IF IncomingPaths(chapter_id) # {}
    THEN Reject("delete_chapter", 500, "Internal Server Error", admin, chapter_id)
    ELSE
        /\ Len(admin_log) < MaxEdits
        /\ chapters' = [c \in DOMAIN chapters \ {chapter_id} |->
                           IF c \in remaining_chapters
                           THEN [chapters[c] EXCEPT !.order_index = @ - 1]
                           ELSE chapters[c]]
        \* cascade: the chapter's segments, their attempts, its outgoing paths
        /\ segments' = [s \in DOMAIN segments \ deleted_segments |-> segments[s]]
        /\ attempts' = [k \in {k \in DOMAIN attempts : k[2] \notin deleted_segments} |->
                           attempts[k]]
        /\ paths' = [p \in DOMAIN paths \ OutgoingPaths(chapter_id) |-> paths[p]]
        /\ admin_log' = Append(admin_log,
                               LogEntry(admin, "delete", "chapter", Some(chapter_id)))
        /\ resp' = Response("delete_chapter", 200, "Chapter deleted successfully",
                            admin, chapter_id)
        /\ UNCHANGED <<now, users, courses, progress, user_xp, next_id, call, ret, tokens>>

\* a label of the path editor: its text and the number formatted into it
Label(text, value) == [text |-> text, value |-> value]

\* f"score > {path_data.condition_value}" and its four siblings
DerivedLabel(condition_type, condition_value) ==
    IF ~HasValue(condition_type) THEN None
    ELSE IF Get(condition_type) = "score_gt" THEN Some(Label("score >", condition_value))
    ELSE IF Get(condition_type) = "score_lt" THEN Some(Label("score <", condition_value))
    ELSE IF Get(condition_type) = "score_gte" THEN Some(Label("score >=", condition_value))
    ELSE IF Get(condition_type) = "score_lte" THEN Some(Label("score <=", condition_value))
    ELSE IF Get(condition_type) = "score_eq" THEN Some(Label("score =", condition_value))
    ELSE None

\* condition_label or path_data.condition_label
LabelOr(derived, supplied) == IF ~IsNone(derived) THEN derived ELSE supplied

(* POST /admin/chapters/paths.  The row is built from the unpacked         *)
(* path_data.dict() plus the keyword condition_label: when the payload's   *)
(* dict() carries a condition_label key the call has the keyword twice and *)
(* raises TypeError.  The payload schema is not among the sources, so      *)
(* dict_has_label is an input.                                             *)
create_chapter_path(admin, from_chapter_id, to_chapter_id, condition_type, condition_value, supplied_label, dict_has_label) ==
    LET auth == get_current_admin_user_code(admin)
    IN
    IF auth # 200 THEN Reject("create_chapter_path", auth, "auth", admin, 0)
    ELSE IF from_chapter_id \notin DOMAIN chapters \/ to_chapter_id \notin DOMAIN chapters
    THEN Reject("create_chapter_path", 404, "One or both chapters not found", admin, 0)
    ELSE IF chapters[from_chapter_id].course_id # chapters[to_chapter_id].course_id
    THEN Reject("create_chapter_path", 400, "Chapters must belong to the same course",
                admin, 0)
    ELSE IF \E p \in DOMAIN paths :
                /\ paths[p].from_chapter_id = from_chapter_id
                /\ paths[p].to_chapter_id = to_chapter_id
                /\ paths[p].condition_type = condition_type
                /\ paths[p].condition_value = condition_value
    THEN Reject("create_chapter_path", 400, "This path already exists", admin, 0)
    ELSE IF dict_has_label
    THEN Reject("create_chapter_path", 500, "Internal Server Error", admin, 0)
    \* CHECK from_chapter_id != to_chapter_id fails the commit
    ELSE IF from_chapter_id = to_chapter_id
    THEN Reject("create_chapter_path", 500, "Internal Server Error", admin, 0)
    ELSE
    LET condition_label == DerivedLabel(condition_type, condition_value)
        new_path == [PathRow(from_chapter_id, to_chapter_id, FALSE, condition_type,
                             condition_value, 0)
                        EXCEPT !.condition_label = LabelOr(condition_label, supplied_label)]
    IN  /\ Len(admin_log) < MaxEdits
        /\ paths' = paths @@ (next_id.path :> new_path)
        /\ next_id' = [next_id EXCEPT !.path = @ + 1]
        /\ admin_log' = Append(admin_log, LogEntry(admin, "create", "chapter_path", None))
        /\ resp' = Response("create_chapter_path", 201, "created", admin, next_id.path)
        /\ UNCHANGED <<now, users, courses, chapters, segments, progress, attempts,
                       user_xp, call, ret, tokens>>

----------------------------------------------------------------------------
(* Admin segments router.  chapter.calculate_total_xp() sums xp_value over *)
(* chapter.segments, which the session loads with a SELECT when it is      *)
(* first read: with autoflush off the collection holds the rows of the     *)
(* table as the request found it (a row added in the request is missing,   *)
(* a row deleted in the request is still there), as the objects the        *)
(* session holds (an attribute set in the request is seen).  view is that  *)
(* collection's table.                                                     *)

RECURSIVE SumXpIn(_, _)
SumXpIn(view, ids) ==
    IF ids = {} THEN 0
    ELSE LET x == CHOOSE y \in ids : TRUE
         IN  view[x].xp_value + SumXpIn(view, ids \ {x})

Session_calculate_total_xp(view, chapter_id) ==
    SumXpIn(view, {s \in DOMAIN view : view[s].chapter_id = chapter_id})

SegmentTypes == {"explanation", "activity"}

\* POST /admin/segments/ with a payload that passes the per-type validation
create_segment(admin, chapter_id, type, xp_value) ==
    LET auth == get_current_admin_user_code(admin)
    IN
    IF auth # 200 THEN Reject("create_segment", auth, "auth", admin, 0)
    ELSE IF chapter_id \notin DOMAIN chapters
    THEN Reject("create_segment", 404, "Chapter not found", admin, 0)
    ELSE IF type \notin SegmentTypes
    THEN Reject("create_segment", 400, "Invalid segment type", admin, 0)
    ELSE
    LET max_order == MaxOrderOr({segments[s].order_index : s \in ChapterSegments(chapter_id)})
        new_segment == SegmentRow(chapter_id, type, IF type = "activity" THEN 1 ELSE 0,
                                  None, xp_value, 100, 5, FALSE, max_order + 1)
    IN  /\ Len(admin_log) < MaxEdits
        /\ segments' = segments @@ (next_id.segment :> new_segment)
        /\ next_id' = [next_id EXCEPT !.segment = @ + 1]
        /\ chapters' = [chapters EXCEPT ![chapter_id].total_xp =
                           Session_calculate_total_xp(segments, chapter_id)]
        /\ admin_log' = Append(admin_log, LogEntry(admin, "create", "segment", None))
        /\ resp' = Response("create_segment", 201, "created", admin, next_id.segment)
        /\ UNCHANGED <<now, users, courses, paths, progress, attempts, user_xp,
                       call, ret, tokens>>

\* PUT /admin/segments/{segment_id} with a patch of xp_value
update_segment(admin, segment_id, xp_value) ==
    LET auth == get_current_admin_user_code(admin)
    IN
    IF auth # 200 THEN Reject("update_segment", auth, "auth", admin, segment_id)
    ELSE IF segment_id \notin DOMAIN segments
    THEN Reject("update_segment", 404, "Segment not found", admin, segment_id)
    ELSE
    LET changed == segments[segment_id].xp_value # xp_value
        view == [segments EXCEPT ![segment_id].xp_value = xp_value]
        chapter_id == segments[segment_id].chapter_id
    IN  /\ changed => Len(admin_log) < MaxEdits
        /\ segments' = view
        /\ chapters' = IF changed
                       THEN [chapters EXCEPT ![chapter_id].total_xp =
                                Session_calculate_total_xp(view, chapter_id)]
                       ELSE chapters
        /\ admin_log' = IF changed
                        THEN Append(admin_log,
                                    LogEntry(admin, "update", "segment", Some(segment_id)))
                        ELSE admin_log
        /\ resp' = Response("update_segment", 200, "updated", admin, segment_id)
        /\ UNCHANGED <<now, users, courses, paths, progress, attempts, user_xp,
                       next_id, call, ret, tokens>>

SegmentAttemptCount(segment_id) ==
    Cardinality({k \in DOMAIN attempts : k[2] = segment_id /\ attempts[k] # <<>>})

\* DELETE /admin/segments/{segment_id}
delete_segment(admin, segment_id) ==
    LET auth == get_current_admin_user_code(admin)
    IN
    IF auth # 200 THEN Reject("delete_segment", auth, "auth", admin, segment_id)
    ELSE IF segment_id \notin DOMAIN segments
    THEN Reject("delete_segment", 404, "Segment not found", admin, segment_id)
    ELSE IF SegmentAttemptCount(segment_id) > 0
    THEN Reject("delete_segment", 400, "Cannot delete segment with user attempts",
                admin, segment_id)
    ELSE
    LET chapter_id == segments[segment_id].chapter_id
        order_index == segments[segment_id].order_index
        remaining_segments == {s \in ChapterSegments(chapter_id) \ {segment_id} :
                                  segments[s].order_index > order_index}
    IN  /\ Len(admin_log) < MaxEdits
        /\ segments' = [s \in DOMAIN segments \ {segment_id} |->
                           IF s \in remaining_segments
                           THEN [segments[s] EXCEPT !.order_index = @ - 1]
                           ELSE segments[s]]
        \* the deleted row is still in chapter.segments when the sum is taken
        /\ chapters' = [chapters EXCEPT ![chapter_id].total_xp =
                           Session_calculate_total_xp(segments, chapter_id)]
        /\ admin_log' = Append(admin_log,
                               LogEntry(admin, "delete", "segment", Some(segment_id)))
        /\ resp' = Response("delete_segment", 200, "Segment deleted successfully",
                            admin, segment_id)
        /\ UNCHANGED <<now, users, courses, paths, progress, attempts, user_xp,
                       next_id, call, ret, tokens>>

\* POST /admin/segments/{segment_id}/publish
publish_segment(admin, segment_id) ==
    LET auth == get_current_admin_user_code(admin)
    IN
    IF auth # 200 THEN Reject("publish_segment", auth, "auth", admin, segment_id)
    ELSE IF segment_id \notin DOMAIN segments
    THEN Reject("publish_segment", 404, "Segment not found", admin, segment_id)
    ELSE IF segments[segment_id].is_published
    THEN Reject("publish_segment", 200, "Segment is already published", admin, segment_id)
    ELSE IF segments[segment_id].type = "activity" /\ segments[segment_id].n_test_cases = 0
    THEN Reject("publish_segment", 400,
                "Activity segments must have at least one test case", admin, segment_id)
    ELSE
    LET view == [segments EXCEPT ![segment_id].is_published = TRUE]
        chapter_id == segments[segment_id].chapter_id
    IN  /\ Len(admin_log) < MaxEdits
        /\ segments' = view
        /\ chapters' = [chapters EXCEPT ![chapter_id].total_xp =
                           Session_calculate_total_xp(view, chapter_id)]
        /\ admin_log' = Append(admin_log,
                               LogEntry(admin, "publish", "segment", Some(segment_id)))
        /\ resp' = Response("publish_segment", 200, "Segment published successfully",
                            admin, segment_id)
        /\ UNCHANGED <<now, users, courses, paths, progress, attempts, user_xp,
                       next_id, call, ret, tokens>>

\* POST /admin/segments/{segment_id}/unpublish
unpublish_segment(admin, segment_id) ==
    LET auth == get_current_admin_user_code(admin)
    IN
    IF auth # 200 THEN Reject("unpublish_segment", auth, "auth", admin, segment_id)
    ELSE IF segment_id \notin DOMAIN segments
    THEN Reject("unpublish_segment", 404, "Segment not found", admin, segment_id)
    ELSE IF ~segments[segment_id].is_published
    THEN Reject("unpublish_segment", 200, "Segment is not published", admin, segment_id)
    ELSE
    LET view == [segments EXCEPT ![segment_id].is_published = FALSE]
        chapter_id == segments[segment_id].chapter_id
    IN  /\ Len(admin_log) < MaxEdits
        /\ segments' = view
        /\ chapters' = [chapters EXCEPT ![chapter_id].total_xp =
                           Session_calculate_total_xp(view, chapter_id)]
        /\ admin_log' = Append(admin_log,
                               LogEntry(admin, "unpublish", "segment", Some(segment_id)))
        /\ resp' = Response("unpublish_segment", 200, "Segment unpublished successfully",
                            admin, segment_id)
        /\ UNCHANGED <<now, users, courses, paths, progress, attempts, user_xp,
                       next_id, call, ret, tokens>>

\* POST /admin/segments/{segment_id}/duplicate
duplicate_segment(admin, segment_id) ==
    LET auth == get_current_admin_user_code(admin)
    IN
    IF auth # 200 THEN Reject("duplicate_segment", auth, "auth", admin, segment_id)
    ELSE IF segment_id \notin DOMAIN segments
    THEN Reject("duplicate_segment", 404, "Segment not found", admin, segment_id)
    ELSE
    LET original_segment == segments[segment_id]
        max_order == MaxOrderOr({segments[s].order_index :
                                    s \in ChapterSegments(original_segment.chapter_id)})
        new_segment == [original_segment EXCEPT !.order_index = max_order + 1,
                                                !.is_published = FALSE]
    IN  /\ Len(admin_log) < MaxEdits
        /\ segments' = segments @@ (next_id.segment :> new_segment)
        /\ next_id' = [next_id EXCEPT !.segment = @ + 1]
        /\ admin_log' = Append(admin_log, LogEntry(admin, "create", "segment", None))
        /\ resp' = Response("duplicate_segment", 200, "duplicated", admin, next_id.segment)
        /\ UNCHANGED <<now, users, courses, chapters, paths, progress, attempts,
                       user_xp, call, ret, tokens>>

BulkSegmentActions == {"publish", "unpublish", "update_xp"}

\* one iteration of bulk_segment_operation's loop; value is an optional int
BulkSegmentApply(action, value, s) ==
    LET segment == segments[s]
    IN  IF action = "publish" THEN [segment EXCEPT !.is_published = TRUE]
        ELSE IF action = "unpublish" THEN [segment EXCEPT !.is_published = FALSE]
        ELSE IF action = "update_xp" /\ ~IsNone(value) /\ Get(value) # 0
        THEN [segment EXCEPT !.xp_value = Get(value)]
        ELSE segment

\* POST /admin/segments/bulk
bulk_segment_operation(admin, action, segment_ids, value) ==
    LET auth == get_current_admin_user_code(admin)
        found == {s \in DOMAIN segments : InSeq(s, segment_ids)}
    IN
    IF auth # 200 THEN Reject("bulk_segment_operation", auth, "auth", admin, 0)
    ELSE IF Cardinality(found) # Len(segment_ids)
    THEN Reject("bulk_segment_operation", 400, "Some segments not found", admin, 0)
    ELSE
    LET view == [s \in DOMAIN segments |->
                    IF s \in found THEN BulkSegmentApply(action, value, s) ELSE segments[s]]
        affected_chapters == {segments[s].chapter_id : s \in found}
    IN  /\ Len(admin_log) < MaxEdits
        /\ segments' = view
        /\ chapters' = [c \in DOMAIN chapters |->
                           IF c \in affected_chapters
                           THEN [chapters[c] EXCEPT !.total_xp =
                                    Session_calculate_total_xp(view, c)]
                           ELSE chapters[c]]
        /\ admin_log' = Append(admin_log, LogEntry(admin, "bulk_operation", "segment", None))
        /\ resp' = Response("bulk_segment_operation", 200, action, admin, 0)
        /\ UNCHANGED <<now, users, courses, paths, progress, attempts, user_xp,
                       next_id, call, ret, tokens>>

----------------------------------------------------------------------------
(* The admin content surface: an admin editing the chapters, segments and  *)
(* paths of an empty course and of a course with one chapter.              *)

InitContent ==
    /\ now = 0
    /\ users = (1 :> NewUser(TRUE, TRUE, 10, 1000))
    /\ courses = (1 :> NewCourse("py", 1)) @@ (2 :> NewCourse("js", 1))
    /\ chapters = (1 :> [ChapterRow(2, "intro", 1, TRUE) EXCEPT !.total_xp = 10])
    /\ segments = (1 :> SegmentRow(1, "explanation", 0, None, 10, 100, 5, TRUE, 0))
    /\ paths = <<>>
    /\ progress = <<>> /\ attempts = <<>> /\ user_xp = <<>> /\ admin_log = <<>>
    /\ next_id = [course |-> 3, chapter |-> 2, segment |-> 2, path |-> 1, progress |-> 1]
    /\ resp = NoResponse
    /\ call = None
    /\ ret = None
    /\ tokens = {}

ContentSlugs == {"intro", "loops"}
ContentChapterIds == 1..3
ContentSegmentIds == 1..3
ContentXpValues == {0, 5}
ContentCondTypes == {None, Some("score_gte"), Some("default")}
ContentLabels == {None, Some(Label("custom", None))}
ContentBulkIds == {<<1>>, <<1, 2>>}

NextContent ==
    \/ \E course_id \in 1..3, slug \in ContentSlugs : create_chapter(1, course_id, slug)
    \/ \E chapter_id \in ContentChapterIds, dialect \in Dialects :
           delete_chapter(1, chapter_id, dialect)
    \/ \E f \in ContentChapterIds, t \in ContentChapterIds, condition_type \in ContentCondTypes,
          supplied_label \in ContentLabels, dict_has_label \in BOOLEAN :
           create_chapter_path(1, f, t, condition_type, Some(70), supplied_label,
                               dict_has_label)
    \/ \E chapter_id \in ContentChapterIds, xp_value \in ContentXpValues :
           create_segment(1, chapter_id, "explanation", xp_value)
    \/ \E s \in ContentSegmentIds, xp_value \in ContentXpValues : update_segment(1, s, xp_value)
    \/ \E s \in ContentSegmentIds : delete_segment(1, s)
    \/ \E s \in ContentSegmentIds : publish_segment(1, s)
    \/ \E s \in ContentSegmentIds : unpublish_segment(1, s)
    \/ \E s \in ContentSegmentIds : duplicate_segment(1, s)
    \/ \E action \in BulkSegmentActions, ids \in ContentBulkIds, value \in {None, Some(20)} :
           bulk_segment_operation(1, action, ids, value)

SpecContent == InitContent /\ [][NextContent]_vars

----------------------------------------------------------------------------
(* A learner and an admin on one published course of three chapters: the   *)
(* learner enrolls, reads and submits while the admin deletes chapters.    *)

InitDelete ==
    /\ now = 0
    /\ users = (1 :> NewUser(FALSE, TRUE, 10, 1000)) @@ (2 :> NewUser(TRUE, TRUE, 10, 1000))
    /\ courses = (1 :> [NewCourse("py", 2) EXCEPT !.status = "published",
                                                  !.published_at = Some(0)])
    /\ chapters = (1 :> [ChapterRow(1, "intro", 0, TRUE) EXCEPT !.total_xp = 10])
               @@ (2 :> [ChapterRow(1, "next", 1, TRUE) EXCEPT !.total_xp = 10])
               @@ (3 :> [ChapterRow(1, "review", 2, TRUE) EXCEPT !.total_xp = 10])
    /\ segments = (1 :> SegmentRow(1, "activity", 1, None, 10, 100, 1, TRUE, 0))
               @@ (2 :> SegmentRow(2, "activity", 1, None, 10, 100, 1, TRUE, 0))
               @@ (3 :> SegmentRow(3, "activity", 1, None, 10, 100, 1, TRUE, 0))
    /\ paths = (1 :> PathRow(1, 2, TRUE, None, None, 0))
    /\ progress = <<>> /\ attempts = <<>> /\ user_xp = <<>> /\ admin_log = <<>>
    /\ next_id = [course |-> 2, chapter |-> 4, segment |-> 4, path |-> 2, progress |-> 1]
    /\ resp = NoResponse
    /\ call = None
    /\ ret = None
    /\ tokens = {}

DeleteSubmission == Submission(None, 0, FALSE, 0)
DeleteSlugs == {"intro", "next", "review"}
DeleteChapterIds == 1..3

NextDelete ==
    \/ enroll_in_course(1, "py")
    \/ \E segment_id \in 1..3 : submit_segment(1, segment_id, DeleteSubmission)
    \/ \E chapter_slug \in DeleteSlugs : get_chapter(1, "py", chapter_slug)
    \/ \E chapter_id \in DeleteChapterIds, dialect \in Dialects :
           delete_chapter(2, chapter_id, dialect)

SpecDelete == InitDelete /\ [][NextDelete]_vars

(* The same course while it grows and shrinks: the learner enrolls and     *)
(* submits as the clock advances, the admin adds a fourth chapter with a   *)
(* published segment and deletes the third.                                *)
NextProgress ==
    \/ Tick /\ now = 0
    \/ enroll_in_course(1, "py")
    \/ \E segment_id \in 1..4 : submit_segment(1, segment_id, DeleteSubmission)
    \/ create_chapter(2, 1, "extra")
    \/ create_segment(2, 4, "activity", 5)
    \/ publish_segment(2, 4)
    \/ \E dialect \in Dialects : delete_chapter(2, 3, dialect)

SpecProgress == InitDelete /\ [][NextProgress]_vars

----------------------------------------------------------------------------
(* Two worker processes serving submissions of one learner.  A handler has *)
(* no await between its statements, so requests interleave only across     *)
(* processes, each with a session of its own: a request reads the user,    *)
(* the enrollment, the attempt count and today's XP, and commits later.    *)

Workers == {1, 2}

\* the reads and the two limit checks of submit_segment
submit_segment_begin(w, u, segment_id, sub) ==
    LET auth == get_current_verified_user_code(u)
    IN
    /\ IsNone(call[w])
    /\ IF auth # 200 THEN Reject("submit_segment", auth, "auth", u, segment_id)
       ELSE IF segment_id \notin DOMAIN segments
       THEN Reject("submit_segment", 404, "Segment not found", u, segment_id)
       ELSE IF attempts_limit_reached(Len(AttemptsOf(u, segment_id)),
                                      segments[segment_id].max_attempts)
       THEN Reject("submit_segment", 403, "Maximum attempts reached", u, segment_id)
       ELSE IF TodayXP(u) >= users[u].daily_xp_limit
       THEN Reject("submit_segment", 403, "Daily XP limit reached", u, segment_id)
       ELSE /\ call' = [call EXCEPT ![w] =
                           Some([u |-> u, segment_id |-> segment_id, sub |-> sub,
                                 existing_attempts |-> Len(AttemptsOf(u, segment_id)),
                                 loaded_user |-> users[u],
                                 loaded_progress |-> LoadProgress(u, segment_id)])]
            /\ UNCHANGED <<now, db, resp, ret, tokens>>

\* the rest of the handler, up to db.commit()
submit_segment_end(w) ==
    /\ ~IsNone(call[w])
    /\ submit_segment_commit(Get(call[w]).u, Get(call[w]).segment_id, Get(call[w]).sub,
                             Get(call[w]).existing_attempts, Get(call[w]).loaded_user,
                             Get(call[w]).loaded_progress)
    /\ call' = [call EXCEPT ![w] = None]

InitRace ==
    /\ now = 0
    /\ users = (1 :> NewUser(FALSE, TRUE, 10, 1000))
    /\ courses = (1 :> [NewCourse("py", 9) EXCEPT !.status = "published",
                                                  !.published_at = Some(0)])
    /\ chapters = (1 :> [ChapterRow(1, "intro", 0, TRUE) EXCEPT !.total_xp = 20])
    /\ segments = (1 :> SegmentRow(1, "explanation", 0, Some(<<"a">>), 10, 100, 1, TRUE, 0))
               @@ (2 :> SegmentRow(1, "explanation", 0, Some(<<"a">>), 10, 100, 2, TRUE, 1))
    /\ paths = <<>>
    /\ progress = <<>> /\ attempts = <<>> /\ user_xp = <<>> /\ admin_log = <<>>
    /\ next_id = [course |-> 2, chapter |-> 2, segment |-> 3, path |-> 1, progress |-> 1]
    /\ resp = NoResponse
    /\ call = [w \in Workers |-> None]
    /\ ret = None
    /\ tokens = {}

RaceSubmissions ==
    {Submission(Some(<<"a">>), 0, FALSE, 0), Submission(Some(<<"b">>), 0, FALSE, 0)}

NextRace ==
    \/ enroll_in_course(1, "py")
    \/ \E w \in Workers, segment_id \in 1..2, sub \in RaceSubmissions :
           submit_segment_begin(w, 1, segment_id, sub)
    \/ \E w \in Workers : submit_segment_end(w)

SpecRace == InitRace /\ [][NextRace]_vars

----------------------------------------------------------------------------
(* Properties.                                                             *)

\* C3: for every xp_value >= 0, attempt_number >= 1, hints_used >= 0 and
\* solution_viewed flag, calculate_xp_for_attempt returns max(0, x3) with
\* x1 = xp_value - trunc(xp_value * (attempt_number - 1) / 10),
\* x2 = x1 - trunc(x1 * hints_used / 5), x3 = trunc(x2 / 2) if solution_viewed
\* else x2; (100, 3, 2, false) gives 48, (100, 3, 2, true) gives 24; and the
\* result always lies in [0, xp_value].
C3_XpFormulaAndRange ==
    ret # None =>
        LET x1 == call.xp_value - Trunc(call.xp_value * (call.attempt_number - 1), 10)
            x2 == x1 - Trunc(x1 * call.hints_used, 5)
            x3 == IF call.solution_viewed THEN Trunc(x2, 2) ELSE x2
        IN  /\ Get(ret) = Max({0, x3})
            /\ (call.xp_value = 100 /\ call.attempt_number = 3 /\ call.hints_used = 2)
                   => Get(ret) = (IF call.solution_viewed THEN 24 ELSE 48)
            /\ 0 <= Get(ret)
            /\ Get(ret) <= call.xp_value

\* C4: update_streak: with no last_active_date an activity gives
\* current_streak = longest_streak = 1; an activity on the same calendar day as
\* last_active_date changes neither counter; a gap of exactly one day
\* increments current_streak and raises longest_streak when exceeded; any
\* other gap, negative ones included, sets current_streak to 1 and leaves
\* longest_streak.  So D gives 1/1, then D+1 gives 2/2, then D+3 gives 1/2.
C4_StreakStateMachine ==
    call # None =>
        LET b == Get(call).before
            u == users[1]
            gap == DateOf(Get(call).activity_date) - DateOf(Get(b.last_active_date))
        IN  IF IsNone(b.last_active_date)
            THEN u.current_streak = 1 /\ u.longest_streak = 1
            ELSE /\ gap = 0 => /\ u.current_streak = b.current_streak
                               /\ u.longest_streak = b.longest_streak
                 /\ gap = 1 => /\ u.current_streak = b.current_streak + 1
                               /\ u.longest_streak =
                                      Max({b.longest_streak, b.current_streak + 1})
                 /\ gap \notin {0, 1} => /\ u.current_streak = 1
                                         /\ u.longest_streak = b.longest_streak
                 /\ (b.current_streak = 1 /\ b.longest_streak = 1 /\ gap = 1)
                        => u.current_streak = 2 /\ u.longest_streak = 2
                 /\ (b.current_streak = 2 /\ b.longest_streak = 2 /\ gap = 2)
                        => u.current_streak = 1 /\ u.longest_streak = 2

\* the D, D+1, D+3 run has happened: a 2/2 streak was reset over a skipped day
C4_Witness ==
    /\ call # None
    /\ Get(call).before.current_streak = 2
    /\ Get(call).before.longest_streak = 2
    /\ Get(call).before.last_active_date # None
    /\ DateOf(Get(call).activity_date)
           - DateOf(Get(Get(call).before.last_active_date)) = 2
    /\ users[1].current_streak = 1
    /\ users[1].longest_streak = 2

\* C5: evaluate_condition is true for every score, absent ones included, when
\* is_default is set or condition_type is absent; otherwise it is false for an
\* absent score and, for an integer score, exactly the named comparison of the
\* score with condition_value; score_gte 70 is true for 70 and 100, false for 69.
C5_EvaluateCondition ==
    ret # None =>
        LET p == call.path
            r == Get(ret)
            s == Get(call.user_score)
            v == Get(p.condition_value)
            t == Get(p.condition_type)
        IN  /\ (p.is_default \/ IsNone(p.condition_type)) => ~r.raised /\ r.value
            /\ (~p.is_default /\ ~IsNone(p.condition_type) /\ t \in CondTypes) =>
                   /\ IsNone(call.user_score) => ~r.raised /\ ~r.value
                   /\ (~IsNone(call.user_score) /\ ~IsNone(p.condition_value)) =>
                          /\ ~r.raised
                          /\ t = "score_gt" => (r.value <=> s > v)
                          /\ t = "score_lt" => (r.value <=> s < v)
                          /\ t = "score_gte" => (r.value <=> s >= v)
                          /\ t = "score_lte" => (r.value <=> s <= v)
                          /\ t = "score_eq" => (r.value <=> s = v)
                          /\ (t = "score_gte" /\ v = 70 /\ s \in {70, 100}) => r.value
                          /\ (t = "score_gte" /\ v = 70 /\ s = 69) => ~r.value

\* a score_gte 70 path has been evaluated on 69 and answered false
C5_Witness ==
    /\ ret # None
    /\ ~call.path.is_default
    /\ call.path.condition_type = Some("score_gte")
    /\ call.path.condition_value = Some(70)
    /\ call.user_score = Some(69)
    /\ ~Get(ret).raised /\ ~Get(ret).value

\* C6: calculate_score of an explanation segment is 100 when the segment has
\* no MCQ questions, whatever is submitted; with at least one question it is
\* round(100 * correct / total) for every submitted answer list, an empty or
\* absent one included, total the number of questions and correct the number
\* of positions whose selected value equals the correct_answer.
C6_ExplanationScore ==
    (ret # None /\ call.seg_type = "explanation") =>
        IF ~Truthy(call.mcq_questions) THEN Get(ret) = 100
        ELSE LET answers == IF IsNone(call.mcq_answers) THEN <<>>
                            ELSE Get(call.mcq_answers)
                 questions == Get(call.mcq_questions)
             IN  Get(ret) = Round(100 * CountCorrect(answers, questions), Len(questions))

\* the score of the passing attempt that completed segment s for user u
RecordedScore(u, s) ==
    LET rows == AttemptsOf(u, s)
        first == Min({i \in 1..Len(rows) : rows[i].status = "passed"})
    IN  rows[first].score

RECURSIVE SumRecordedScores(_, _)
SumRecordedScores(u, segs) ==
    IF segs = {} THEN 0
    ELSE LET x == CHOOSE y \in segs : TRUE
         IN  RecordedScore(u, x) + SumRecordedScores(u, segs \ {x})

C2_AttemptLimit ==
    [][/\ \A s \in DOMAIN segments :
              /\ Len(AttemptsOf(1, s))' <= segments[s].max_attempts
              /\ \A i \in 1..Len(AttemptsOf(1, s))' :
                     (AttemptsOf(1, s)')[i].attempt_number = i
       /\ \A s \in DOMAIN segments, sub \in Submissions :
              (Len(AttemptsOf(1, s)) >= segments[s].max_attempts
               /\ submit_segment(1, s, sub))
                  => (resp'.code = 403 /\ UNCHANGED db)]_vars

\* segment 1 has its max_attempts rows and a further submission was refused
C2_Witness ==
    /\ Len(AttemptsOf(1, 1)) = segments[1].max_attempts
    /\ \A s \in DOMAIN segments \ {1} : AttemptsOf(1, s) = <<>>
    /\ resp = Response("submit_segment", 403, "Maximum attempts reached", 1, 1)

\* C7: there is at most one user_progress row per (user, course); an enroll by
\* a learner who is already enrolled answers 200 and changes no table (no new
\* row, enrolled_count, unlocked_chapters and learning_path as they were); and
\* a course's enrolled_count is the number of its enrollment rows.
C7_EnrollIdempotent ==
    [][/\ \A u \in DOMAIN users, c \in DOMAIN courses :
              Cardinality({p \in DOMAIN progress' : /\ progress'[p].user_id = u
                                                    /\ progress'[p].course_id = c}) <= 1
       /\ \A c \in DOMAIN courses :
              courses'[c].enrolled_count =
                  Cardinality({p \in DOMAIN progress' : progress'[p].course_id = c})
       /\ \A u \in DOMAIN users, course_slug \in EnrollSlugs :
              (/\ \E c \in DOMAIN courses, p \in DOMAIN progress :
                      /\ courses[c].slug = course_slug /\ courses[c].status = "published"
                      /\ progress[p].user_id = u /\ progress[p].course_id = c
               /\ enroll_in_course(u, course_slug))
                  => (resp'.code = 200 /\ UNCHANGED db)]_vars

\* learner 1 is enrolled in course 1 once, and the last call was a repeated
\* enroll that was answered with the existing enrollment
C7_Witness ==
    /\ DOMAIN progress = {1}
    /\ progress[1].user_id = 1 /\ progress[1].course_id = 1
    /\ courses[1].enrolled_count = 1
    /\ resp = Response("enroll_in_course", 200, "Already enrolled in this course", 1, 1)

\* C8: no admin operation turns the status of a course that has an enrollment
\* with status in_progress into archived: single delete, bulk delete and bulk
\* archive leave the status of such a course as it was.
C8_NoArchiveWithActiveEnrollments ==
    [][\A c \in DOMAIN courses :
           (/\ \E p \in DOMAIN progress : /\ progress[p].course_id = c
                                          /\ progress[p].status = "in_progress"
            /\ courses[c].status # "archived")
               => courses'[c].status # "archived"]_vars

\* C9: publish_course on a course that is already published answers 200 and
\* leaves the course rows (status, published_at) as they were; unpublish_course
\* on a course that is not published answers 200 and leaves them as they were.
C9_PublishUnpublishIdempotent ==
    [][\A c \in DOMAIN courses :
           /\ (courses[c].status = "published" /\ publish_course(1, c))
                  => (resp'.code = 200 /\ UNCHANGED courses)
           /\ (courses[c].status # "published" /\ unpublish_course(1, c))
                  => (resp'.code = 200 /\ UNCHANGED courses)]_vars

\* a course published at an earlier instant was published again and kept its stamp
C9_Witness ==
    /\ resp = Response("publish_course", 200, "Course is already published", 1, 2)
    /\ courses[2].status = "published"
    /\ courses[2].published_at # None
    /\ Get(courses[2].published_at) < now

\* C10: no two courses share a slug; a create_course or duplicate_course whose
\* slug is in use answers 400 and leaves courses, chapters, segments, paths and
\* the admin log as they were.
C10_SlugsUnique ==
    [][/\ \A c1, c2 \in DOMAIN courses' :
              courses'[c1].slug = courses'[c2].slug => c1 = c2
       /\ \A slug \in AdminSlugs :
              ((\E c \in DOMAIN courses : courses[c].slug = slug) /\ create_course(1, slug))
                  => (resp'.code = 400
                      /\ UNCHANGED <<courses, chapters, segments, paths, admin_log>>)
       /\ \A slug \in AdminSlugs, c \in DOMAIN courses :
              ((\E d \in DOMAIN courses : courses[d].slug = slug)
               /\ duplicate_course(1, c, slug))
                  => (resp'.code = 400
                      /\ UNCHANGED <<courses, chapters, segments, paths, admin_log>>)]_vars

\* a course was added under a new slug and a later duplicate under a used slug
\* was refused
C10_Witness ==
    /\ Cardinality(DOMAIN courses) = 4
    /\ resp = Response("duplicate_course", 400, "Course with this slug already exists", 1, 1)

\* C11: duplicate_course on a course with n chapters, m segments and p paths
\* between its own chapters creates one new course with exactly n chapters, m
\* segments (same per-chapter distribution) and p paths; each cloned path joins
\* the clones of the original path's endpoints (chapters of the new course,
\* never of the source); the new course is draft and every cloned chapter and
\* segment is unpublished whatever the originals were; the source course and
\* every existing row are unchanged.
C11_DuplicateCourse ==
    [][\A c \in AdminCourseIds, slug \in AdminSlugs :
          (duplicate_course(1, c, slug) /\ resp'.code = 200) =>
            LET k == next_id.course
                OC == {ch \in DOMAIN chapters : chapters[ch].course_id = c}
                NC == {ch \in DOMAIN chapters' : chapters'[ch].course_id = k}
                NS == DOMAIN segments' \ DOMAIN segments
                NP == DOMAIN paths' \ DOMAIN paths
            IN  /\ k \notin DOMAIN courses
                /\ DOMAIN courses' = DOMAIN courses \cup {k}
                /\ courses'[k].status = "draft"
                /\ courses'[k].slug = slug
                /\ \A x \in DOMAIN courses : courses'[x] = courses[x]
                /\ \A x \in DOMAIN chapters : chapters'[x] = chapters[x]
                /\ \A x \in DOMAIN segments : segments'[x] = segments[x]
                /\ \A x \in DOMAIN paths : paths'[x] = paths[x]
                /\ DOMAIN chapters' \ DOMAIN chapters = NC
                /\ Cardinality(NC) = Cardinality(OC)
                /\ \A ch \in NC : ~chapters'[ch].is_published
                /\ Cardinality(NS) =
                       Cardinality({x \in DOMAIN segments : segments[x].chapter_id \in OC})
                /\ \A x \in NS : /\ ~segments'[x].is_published
                                 /\ segments'[x].chapter_id \in NC
                /\ Cardinality(NP) =
                       Cardinality({x \in DOMAIN paths : /\ paths[x].from_chapter_id \in OC
                                                         /\ paths[x].to_chapter_id \in OC})
                /\ \A x \in NP : /\ paths'[x].from_chapter_id \in NC
                                 /\ paths'[x].to_chapter_id \in NC
                /\ \E f \in [OC -> NC] :
                       /\ \A a, b \in OC : f[a] = f[b] => a = b
                       /\ \A a \in OC :
                              /\ chapters'[f[a]].slug = chapters[a].slug
                              /\ Cardinality({x \in NS : segments'[x].chapter_id = f[a]})
                                     = Cardinality({x \in DOMAIN segments :
                                                        segments[x].chapter_id = a})
                       /\ \A a, b \in OC :
                              Cardinality({x \in NP : /\ paths'[x].from_chapter_id = f[a]
                                                      /\ paths'[x].to_chapter_id = f[b]})
                                  = Cardinality({x \in DOMAIN paths :
                                                     /\ paths[x].from_chapter_id = a
                                                     /\ paths[x].to_chapter_id = b})]_vars

\* a published course with two chapters, two segments, one inner path and one
\* path leaving the course has been duplicated
C11_Witness ==
    /\ resp = Response("duplicate_course", 200, "duplicated", 1, 4)
    /\ \E k \in DOMAIN courses :
           /\ k >= 4
           /\ courses[k].status = "draft"
           /\ Cardinality({ch \in DOMAIN chapters : chapters[ch].course_id = k}) = 2
           /\ \E x \in DOMAIN paths :
                  /\ chapters[paths[x].from_chapter_id].course_id = k
                  /\ chapters[paths[x].to_chapter_id].course_id = k
           /\ \E x \in DOMAIN paths :
                  /\ chapters[paths[x].from_chapter_id].course_id = 1
                  /\ chapters[paths[x].to_chapter_id].course_id # 1

\* C12: in the all-time leaderboard response the rank reported for every
\* listed user (the top-N entries and the caller's own entry) is 1 + the
\* number of users whose total_xp is strictly greater; with XP {300, 300, 100}
\* both 300-XP users are reported with rank 1 and the 100-XP user with rank 3.
C12_LeaderboardRank ==
    (resp.op = "get_leaderboard" /\ resp.code = 200) =>
        \A i \in 1..Len(resp.leaderboard) :
            resp.leaderboard[i].rank =
                1 + Cardinality({v \in DOMAIN users :
                        users[v].total_xp > users[resp.leaderboard[i].user_id].total_xp})

\* C13: every admin operation is refused with Forbidden (403, nothing
\* written) unless the caller's account is both verified and admin; in
\* particular an is_admin account with is_verified = FALSE cannot perform any
\* admin operation.
C13_AdminGateNeedsVerifiedAdmin ==
    [][\A a \in DOMAIN users :
           ~(users[a].is_verified /\ users[a].is_admin) =>
               \A slug \in GateSlugs, c \in GateCourseIds :
                   (\/ create_course(a, slug)
                    \/ delete_course(a, c)
                    \/ publish_course(a, c)
                    \/ unpublish_course(a, c))
                       => (resp'.code = 403 /\ UNCHANGED db)]_vars

\* C14 as stated: privilege claims are taken from the token, not the live
\* row: a token issued while the account was admin (verified) keeps passing
\* the admin (verified) gate until it expires, whatever the row says now; only
\* is_active and the existence of the user are re-checked on each request.
C14_TokenClaimsDecideGates ==
    [][\A t \in tokens :
           LET u == get_current_user(t)
           IN  get_current_user_code(u) = 200 =>
                   /\ create_course(u, "ts") =>
                          (resp' = Response("create_course", 403, "auth", u, 0)
                              <=> t.is_admin # Some(TRUE))
                   /\ enroll_in_course(u, "py") =>
                          (resp' = Response("enroll_in_course", 403, "auth", u, 0)
                              <=> t.is_verified # Some(TRUE))]_vars

\* C14 (amended): the gates read the live users row on every request and
\* never the token's is_admin / is_verified claims: a request with a valid
\* token of an active user is refused by the admin gate exactly when the row's
\* is_admin is false now, and by the verified gate exactly when the row's
\* is_verified is false now, so a demotion or de-verification takes effect on
\* the next request and a promotion needs no new token.
C14_LiveRowDecidesGates ==
    [][\A t \in tokens :
           LET u == get_current_user(t)
           IN  get_current_user_code(u) = 200 =>
                   /\ create_course(u, "ts") =>
                          (resp' = Response("create_course", 403, "auth", u, 0)
                              <=> ~users[u].is_admin)
                   /\ enroll_in_course(u, "py") =>
                          (resp' = Response("enroll_in_course", 403, "auth", u, 0)
                              <=> ~users[u].is_verified)]_vars

\* an unexpired token issued with is_admin = true, whose account has since
\* been demoted, has just been refused by the admin gate
C14_Witness ==
    /\ resp = Response("create_course", 403, "auth", 1, 0)
    /\ \A t \in tokens : t.sub = Username(1) /\ t.is_admin = Some(TRUE)
    /\ \E t \in tokens : get_current_user(t) = 1
    /\ users[1].is_active
    /\ ~users[1].is_admin

\* C15: a password-reset token changes a password at most once:
\* reset_password succeeds only if the presented token equals the token
\* currently stored on the user; a successful reset sets the new hash and
\* clears the stored token, so the same token presented again is rejected; a
\* token superseded by a later request_password_reset (the stored token is a
\* different one) is rejected; and every rejected reset (bad token, mismatch,
\* weak password) leaves the password hash and the stored token unchanged.
C15_ResetTokenSingleUse ==
    [][\A t \in tokens \cup {ForgedResetToken}, new_password \in ResetPasswords :
           reset_password(t, new_password) =>
               IF resp'.code = 200
               THEN \E u \in DOMAIN users :
                        /\ t \in tokens
                        /\ t.sub = Email(u)
                        /\ users[u].password_reset_token = Some(t)
                        /\ users'[u].password_reset_token = None
                        /\ users'[u].hashed_password = [bcrypt |-> new_password.id]
                        /\ \A v \in DOMAIN users \ {u} : users'[v] = users[v]
                        \* the token just used is refused from now on
                        /\ \A v \in DOMAIN users : users'[v].password_reset_token # Some(t)
               ELSE UNCHANGED users]_vars

\* a reset token that has changed the password of account 1 was presented
\* again before it expired and was refused, while a token issued earlier and
\* superseded by it is still unexpired
C15_Witness ==
    /\ resp = Response("reset_password", 400, "Invalid reset token", 1, 0)
    /\ users[1].password_reset_token = None
    /\ users[1].hashed_password = [bcrypt |-> StrongPassword.id]
    /\ users[2].password_reset_token = None
    /\ \E t1, t2 \in tokens :
           /\ t1 # t2
           /\ verify_password_reset_token(t1) = Some(Email(1))
           /\ verify_password_reset_token(t2) = Some(Email(1))

C17_PublishNeedsPublishedChapter ==
    [][/\ \A c \in DOMAIN courses :
              (courses[c].status # "published" /\ courses'[c].status = "published")
                  => \E ch \in DOMAIN chapters : /\ chapters[ch].course_id = c
                                                 /\ chapters[ch].is_published
       /\ \A c \in DOMAIN courses :
              (/\ publish_course(1, c)
               /\ courses[c].status # "published"
               /\ ~\E ch \in DOMAIN chapters : /\ chapters[ch].course_id = c
                                               /\ chapters[ch].is_published)
                  => /\ resp'.code = 400
                     /\ courses'[c].status = courses[c].status
                     /\ courses'[c].published_at = courses[c].published_at]_vars

\* C18: after any sequence of XP awards through User.add_xp (from total_xp = 0,
\* level = 1, with non-negative amounts), level = (total_xp div 100) + 1 holds
\* in every state, total_xp >= 0, and level never decreases.
C18_LevelFollowsTotalXp ==
    /\ [](/\ users[1].level = (users[1].total_xp \div 100) + 1
          /\ users[1].total_xp >= 0)
    /\ [][users'[1].level >= users[1].level]_vars

\* an award has carried the account over two level boundaries at once
C18_Witness ==
    /\ call # None
    /\ Get(call).amount = 250
    /\ Get(call).before.level = 1
    /\ Get(call).before.total_xp = 50
    /\ users[1].total_xp = 300
    /\ users[1].level = 4

\* C19: in every state reachable from a new user (current_streak =
\* longest_streak = 0, no last_active_date) by any sequence of update_streak
\* calls with arbitrary activity instants, instants earlier than the stored
\* last_active_date included, longest_streak >= current_streak >= 0 holds and
\* longest_streak never decreases.
C19_LongestStreakDominates ==
    /\ [](/\ users[1].longest_streak >= users[1].current_streak
          /\ users[1].current_streak >= 0)
    /\ [][users'[1].longest_streak >= users[1].longest_streak]_vars

\* a streak of two days was reset by an activity dated before the stored
\* last_active_date
C19_Witness ==
    /\ call # None
    /\ Get(call).before.last_active_date # None
    /\ Get(call).activity_date < Get(Get(call).before.last_active_date)
    /\ Get(call).before.current_streak = 2
    /\ users[1].current_streak = 1
    /\ users[1].longest_streak = 2

\* C20: unlocking is permanent and duplicate-free: across any sequence of
\* learner operations on an enrollment (enroll, get chapter / segment, submit,
\* update-position), unlocked_chapters never loses an element and never
\* contains the same chapter id twice, and learning_path is extended by
\* exactly the chapters newly added to unlocked_chapters, in the same order
\* (so learning_path has no duplicates either).
C20_UnlockPermanentNoDuplicates ==
    /\ [](\A p \in DOMAIN progress :
              /\ \A i, j \in 1..Len(progress[p].unlocked_chapters) :
                     progress[p].unlocked_chapters[i] = progress[p].unlocked_chapters[j]
                         => i = j
              /\ \A i, j \in 1..Len(progress[p].learning_path) :
                     progress[p].learning_path[i] = progress[p].learning_path[j] => i = j)
    /\ [][/\ \A p \in DOMAIN progress :
                 LET old == progress[p]
                     new == progress'[p]
                     n == Len(old.unlocked_chapters)
                 IN  /\ p \in DOMAIN progress'
                     /\ Len(new.unlocked_chapters) >= n
                     /\ SubSeq(new.unlocked_chapters, 1, n) = old.unlocked_chapters
                     /\ new.learning_path =
                            old.learning_path
                                \o SubSeq(new.unlocked_chapters, n + 1,
                                          Len(new.unlocked_chapters))
          /\ \A p \in DOMAIN progress' \ DOMAIN progress :
                 progress'[p].learning_path = progress'[p].unlocked_chapters]_vars

\* the learner has completed chapter 1 and then chapter 2, whose paths lead
\* to chapter 1, unlocked at enrollment, and to chapter 3, locked until then
C20_Witness ==
    /\ resp = Response("submit_segment", 200, "passed", 1, 2)
    /\ \E p \in DOMAIN progress :
           /\ progress[p].completed_chapters = <<1, 2>>
           /\ progress[p].unlocked_chapters = <<1, 2, 3>>
           /\ progress[p].learning_path = <<1, 2, 3>>

\* C22: every newly created chapter gets order_index = (the maximum
\* order_index among the course's chapters before the create) + 1, or 0 if the
\* course had none, so chapters created one after another in a course get
\* 0, 1, 2, ...; likewise every segment created or duplicated in a chapter.
C22_NextOrderIndex ==
    [][/\ \A c \in DOMAIN chapters' \ DOMAIN chapters :
              LET before == {chapters[d].order_index :
                                d \in CourseChapters(chapters'[c].course_id)}
              IN  chapters'[c].order_index = IF before = {} THEN 0 ELSE Max(before) + 1
       /\ \A s \in DOMAIN segments' \ DOMAIN segments :
              LET before == {segments[t].order_index :
                                t \in ChapterSegments(segments'[s].chapter_id)}
              IN  segments'[s].order_index = IF before = {} THEN 0 ELSE Max(before) + 1]_vars

\* the chapters whose segments a step added, removed or changed
TouchedChapters ==
    {segments[s].chapter_id : s \in {s \in DOMAIN segments :
                                        s \notin DOMAIN segments' \/ segments'[s] # segments[s]}}
    \cup {segments'[s].chapter_id : s \in DOMAIN segments' \ DOMAIN segments}

\* C23: after every committed admin segment operation on a chapter (create,
\* update of xp_value, delete, publish, unpublish, duplicate, bulk update_xp)
\* the chapter's stored total_xp is the sum of xp_value over the segments that
\* now belong to it.
C23_ChapterTotalXp ==
    [][\A c \in TouchedChapters \cap DOMAIN chapters' :
           chapters'[c].total_xp = Session_calculate_total_xp(segments', c)]_vars

\* C24: a create_chapter_path call that passes the validation stores a path
\* whose condition_label is the caller's label whenever the caller supplied
\* one, and the label derived from (condition_type, condition_value) only when
\* the caller supplied none.
C24_CallerLabelWins ==
    [][\A f \in ContentChapterIds, t \in ContentChapterIds,
          condition_type \in ContentCondTypes, supplied_label \in ContentLabels,
          dict_has_label \in BOOLEAN :
           (/\ f # t
            /\ create_chapter_path(1, f, t, condition_type, Some(70), supplied_label,
                                   dict_has_label)
            /\ resp'.code \notin {400, 401, 403, 404})
           => /\ next_id.path \in DOMAIN paths'
              /\ paths'[next_id.path].condition_label =
                     IF ~IsNone(supplied_label) THEN supplied_label
                     ELSE DerivedLabel(condition_type, Some(70))]_vars

----------------------------------------------------------------------------
(* The XP ledger under the learner flow.                                   *)

\* the score and the decayed XP the grading of a submission computes
SubmissionScore(segment_id, sub) ==
    LET segment == segments[segment_id]
    IN  calculate_score(segment.type,
                        IF segment.type = "activity"
                        THEN Some([i \in 1..segment.n_test_cases |-> TRUE]) ELSE None,
                        IF segment.type = "explanation" THEN sub.mcq_answers ELSE None,
                        segment.mcq_questions)

SubmissionXp(u, segment_id, sub) ==
    calculate_xp_for_attempt(segments[segment_id].xp_value,
                             Len(AttemptsOf(u, segment_id)) + 1,
                             sub.hints_used, sub.solution_viewed)

\* the submission of an enrolled learner that gets past both limit checks and passes
PassingSubmission(u, segment_id, sub) ==
    /\ get_current_verified_user_code(u) = 200
    /\ segment_id \in DOMAIN segments
    /\ ~attempts_limit_reached(Len(AttemptsOf(u, segment_id)), segments[segment_id].max_attempts)
    /\ TodayXP(u) < users[u].daily_xp_limit
    /\ UserProgressRows(u, chapters[segments[segment_id].chapter_id].course_id) # {}
    /\ SubmissionScore(segment_id, sub) >= segments[segment_id].required_score

(* C26: no ledger row has xp_amount 0, and a passing submission whose      *)
(* decayed XP is 0 is still recorded as a passed attempt: it appends one   *)
(* attempt row with status passed and leaves the ledger free of zero rows. *)
C26_ZeroXpPassRecorded ==
    [][\A segment_id \in 1..5, sub \in Submissions :
           (/\ PassingSubmission(1, segment_id, sub)
            /\ SubmissionXp(1, segment_id, sub) = 0
            /\ submit_segment(1, segment_id, sub))
           => /\ <<1, segment_id>> \in DOMAIN attempts'
              /\ Len(attempts'[<<1, segment_id>>]) = Len(AttemptsOf(1, segment_id)) + 1
              /\ attempts'[<<1, segment_id>>][Len(attempts'[<<1, segment_id>>])].status = "passed"
              /\ \A r \in DOMAIN user_xp' : r.xp_amount # 0]_vars

\* the segment is in completed_segments of the learner's enrollment in its course
SegmentCompleted(u, segment_id) ==
    \E p \in UserProgressRows(u, chapters[segments[segment_id].chapter_id].course_id) :
        InSeq(segment_id, progress[p].completed_segments)

LedgerOf(ledger, u) == {r \in DOMAIN ledger : r.user_id = u}

(* C30: under submissions processed one after another the learner's        *)
(* total_xp equals the sum of xp_amount over the learner's ledger rows,    *)
(* and a failed or rejected submission changes neither total_xp nor the    *)
(* ledger.                                                                 *)
C30_TotalXpIsLedgerSum ==
    [][/\ users'[1].total_xp = SumXP(user_xp', LedgerOf(user_xp', 1))
       /\ \A segment_id \in 1..5, sub \in Submissions :
              (/\ submit_segment(1, segment_id, sub)
               /\ (resp'.code # 200 \/ resp'.detail = "failed"))
              => /\ users'[1].total_xp = users[1].total_xp
                 /\ user_xp' = user_xp]_vars

\* two awards are on the ledger and a later submission on the same day failed
C30_Witness ==
    /\ Cardinality(LedgerOf(user_xp, 1)) = 2
    /\ users[1].total_xp = 19
    /\ resp.op = "submit_segment" /\ resp.code = 403
    /\ resp.detail = "Daily XP limit reached"

\* the access checks of get_segment, on the learner's enrollment in the segment's course
SegmentAccessible(u, segment_id) ==
    LET chapter_id == segments[segment_id].chapter_id
        rows == UserProgressRows(u, chapters[chapter_id].course_id)
        previous == {s \in PublishedSegments(chapter_id) :
                        OrderIndex(s) < OrderIndex(segment_id)}
    IN  /\ rows # {}
        /\ InSeq(chapter_id, progress[Min(rows)].unlocked_chapters)
        /\ previous # {} => InSeq(LastSegment(previous), progress[Min(rows)].completed_segments)

----------------------------------------------------------------------------
(* Chapter deletion against learner progress.                              *)

\* some enrollment has the chapter as current chapter, completed or unlocked
ChapterReferenced(chapter_id) ==
    \E p \in DOMAIN progress :
        \/ progress[p].current_chapter_id = Some(chapter_id)
        \/ InSeq(chapter_id, progress[p].completed_chapters)
        \/ InSeq(chapter_id, progress[p].unlocked_chapters)

(* C27: delete_chapter on a chapter some enrollment references is rejected *)
(* with Forbidden and leaves chapters, segments and paths unchanged; no    *)
(* enrollment ever refers to a chapter that does not exist; an allowed     *)
(* delete lowers every later sibling's order_index by exactly one.         *)
C27_DeleteChapterGuard ==
    [][/\ \A chapter_id \in DeleteChapterIds, dialect \in Dialects :
              (/\ chapter_id \in DOMAIN chapters
               /\ ChapterReferenced(chapter_id)
               /\ delete_chapter(2, chapter_id, dialect))
              => /\ resp'.code = 403
                 /\ UNCHANGED <<chapters, segments, paths>>
       /\ \A p \in DOMAIN progress' :
              /\ IsNone(progress'[p].current_chapter_id)
                 \/ Get(progress'[p].current_chapter_id) \in DOMAIN chapters'
              /\ \A c \in DeleteChapterIds :
                     (\/ InSeq(c, progress'[p].completed_chapters)
                      \/ InSeq(c, progress'[p].unlocked_chapters))
                     => c \in DOMAIN chapters'
       /\ \A chapter_id \in DOMAIN chapters \ DOMAIN chapters' :
              \A c \in DOMAIN chapters' :
                  chapters'[c].order_index =
                      IF /\ chapters[c].course_id = chapters[chapter_id].course_id
                         /\ chapters[c].order_index > chapters[chapter_id].order_index
                      THEN chapters[c].order_index - 1
                      ELSE chapters[c].order_index]_vars

----------------------------------------------------------------------------
(* UserProgress.add_completed_chapter as submit_segment calls it.          *)

\* the enrollment object of the request, after the segment is marked completed
RequestProgress(u, segment_id, sub) ==
    CompleteSegment(progress[Min(UserProgressRows(u, chapters[segments[segment_id].chapter_id].course_id))],
                    segment_id, SubmissionScore(segment_id, sub))

\* the passing submission completes its chapter: add_completed_chapter is called
CompletionSubmitted(u, segment_id, sub) ==
    /\ PassingSubmission(u, segment_id, sub)
    /\ PublishedSegments(segments[segment_id].chapter_id) # {}
    /\ ChapterCompletes(RequestProgress(u, segment_id, sub), segments[segment_id].chapter_id)

ProgressAfterCompletion(u, segment_id, sub) ==
    LET obj == RequestProgress(u, segment_id, sub)
        chapter_id == segments[segment_id].chapter_id
    IN  add_completed_chapter(obj, chapter_id, ChapterScore(obj, chapter_id))

\* what the method promises of the object it returns
ProgressContract(before, after) ==
    LET n == Len(after.completed_chapters)
        total == Cardinality(CourseChapters(after.course_id))
    IN  /\ after.progress_percentage = [num |-> 100 * n, den |-> total]
        /\ 0 <= 100 * n /\ 100 * n <= 100 * total
        /\ after.status = "completed" <=> 100 * n >= 100 * total
        /\ (0 < n /\ n < total) => after.status = "in_progress"
        /\ IF ~IsNone(before.completed_at) THEN after.completed_at = before.completed_at
           ELSE IF n >= total THEN after.completed_at = Some(now)
           ELSE IsNone(after.completed_at)

----------------------------------------------------------------------------
(* Concurrent submissions of one learner.                                  *)

====
